---- MODULE Spec2Model ----
(***************************************************************************)
(* Order-lifecycle workflow of the Shopify/Medusa/Stuart connector: the    *)
(* return handlers (routes/returns), the delivery handlers                 *)
(* (routes/delivery.js), the webhook receivers (routes/webhooks.js and the *)
(* /shopify webhook router) and the Stuart courier client they call.       *)
(*                                                                         *)
(* Each HTTP handler is one atomic action: the whole chain of awaited      *)
(* calls, with the outcome of every external call (courier, payments,      *)
(* store write) drawn nondeterministically.  Where requests that overlap   *)
(* matter, a handler is cut at an await: the sync runs at each pass of     *)
(* their loop, confirm and approve at their courier call, the OAuth        *)
(* callback at each database call.  The relational store is the            *)
(* state.  Columns that the handlers only write and never read again       *)
(* (approvedAt, rejectedAt, refundedAt, rejectionReason, comments,         *)
(* lastUpdate, customer contact copies) are left out.                      *)
(*                                                                         *)
(* Time is counted in whole seconds instead of milliseconds; since         *)
(* floor(floor(ms / 1000) / 86400) = floor(ms / 86400000) the day count of *)
(* the return window is the same number.                                   *)
(***************************************************************************)
EXTENDS Integers, Sequences, FiniteSets, TLC

VARIABLES
    now,                \* Date.now(), in seconds
    orders,             \* prisma.order rows, by id
    returns,            \* prisma.return rows; the id is the index
    refunds,            \* prisma.refund rows, append-only
    stripeCalls,        \* number of stripe.refunds.create requests sent
    merchantNotifications, \* number of prisma.merchantNotification rows
    providerJobs,       \* number of jobs the courier has created
    stuartJobs,         \* prisma.stuartJob rows; the id is the index
    quotes,             \* prisma.deliveryQuote rows; the id is the index
    deliveries,         \* prisma.delivery rows; the id is the index
    completions,        \* per order: executions of the "delivered" order write
    webhookLog,         \* prisma.webhookLog rows, append-only
    medusaProducts,     \* Shopify product ids that have a product in Medusa
    resp,               \* the response of the last request handled
    requests,           \* number of requests handled so far
    notice,             \* outcome of the last customer notification attempt
    stripeRefunds,      \* the refunds created at the payments gateway
    listing,            \* the page answered by the last list-by-status request
    syncRuns,           \* the sync invocations, each with its position in the loop
    productMappings,    \* prisma.productMapping rows (routes/sync-products.js)
    products,           \* prisma.product rows (routes/sync.js)
    medusaCatalog,      \* the products of the Medusa backends; the id is the index
    syncStatus,         \* prisma.syncStatus of resource type products, per store
    accessToken,        \* StuartClient.accessToken
    tokenExpiry,        \* StuartClient.tokenExpiry, in seconds
    notifications,      \* prisma.notification rows, append-only
    providerMessages,   \* number of messages the email and SMS providers accepted
    confirms,           \* confirm requests that are past their checks
    stores,             \* prisma.store rows: the syncStatus column, per store
    tokensIssued,       \* number of tokens the courier has issued
    courierCall,        \* what the last call of a StuartClient method did
    approves,           \* approve requests that wait for the courier
    tokens,             \* prisma.token rows; the id is the index
    callbacks           \* OAuth callbacks between their database calls

vars == <<now, orders, returns, refunds, stripeCalls, merchantNotifications,
          providerJobs, stuartJobs, quotes, deliveries, completions,
          webhookLog, medusaProducts, resp, requests, notice,
          stripeRefunds, listing, syncRuns, productMappings, products,
          medusaCatalog, syncStatus, accessToken, tokenExpiry, tokensIssued,
          courierCall, stores, notifications, providerMessages, confirms,
          approves, tokens, callbacks>>

returnVars   == <<returns, refunds, stripeCalls, merchantNotifications,
                  notice, stripeRefunds>>
syncVars     == <<syncRuns, productMappings, products, medusaCatalog, syncStatus,
                  stores>>
deliveryVars == <<quotes, deliveries, completions>>
courierVars  == <<providerJobs, stuartJobs>>
webhookVars  == <<webhookLog, medusaProducts>>
clientVars   == <<accessToken, tokenExpiry, tokensIssued, courierCall>>
notifyVars   == <<notifications, providerMessages>>
authVars     == <<tokens, callbacks>>

-----------------------------------------------------------------------------
(* Bounds of the model *)

\* requests handled in one behaviour
MaxRequests == 3
\* instants the clock moves through
MaxTicks == 3
\* sync invocations started in one behaviour
MaxRuns == 2

-----------------------------------------------------------------------------
(* Values *)

\* null / undefined in a numeric or id column or argument
NULL == -1

\* JavaScript truthiness of a numeric value: undefined, null and 0 are falsy
Truthy(v) == v # NULL /\ v # 0

\* a || b
OrElse(a, b) == IF Truthy(a) THEN a ELSE b

\* obj.name for an object that may lack the property
Field(obj, name) == IF name \in DOMAIN obj THEN obj[name] ELSE NULL

\* a column in the data of a prisma update: undefined leaves the column as is
SetCol(old, new) == IF new = NULL THEN old ELSE new

RETURN_STATUS ==
    {"INITIATED", "PENDING_APPROVAL", "APPROVED", "REJECTED", "PICKUP_SCHEDULED",
     "PICKED_UP", "IN_TRANSIT", "RECEIVED", "REFUNDED"}

\* a status value that is in no status set
BadStatus == "SHIPPED"

SecondsPerDay == 86400
ReturnWindowDays == 30

\* the start of the model's clock
Now0 == 40 * SecondsPerDay

OrderIds == {1, 2}

\* an order id that names no order: one past the stored orders
NoSuchOrder == Cardinality(OrderIds) + 1

\* The orders in the store: one placed 10 days before the start of the clock
\* with total 5000, one placed exactly 30 days before it.
InitOrders ==
    [o \in OrderIds |->
        [customerId |-> o,
         createdAt |-> IF o = 1 THEN Now0 - 10 * SecondsPerDay
                       ELSE Now0 - ReturnWindowDays * SecondsPerDay,
         total |-> IF o = 1 THEN 5000 ELSE 1200,
         status |-> "PLACED",
         deliveryId |-> NULL,
         deliveryStatus |-> "",
         stuartJobId |-> NULL,
         stripePaymentIntentId |-> 500 + o]]

\* the id the courier gives its k-th job; local row ids are 1, 2, ...
providerJobId(k) == 100 + k

\* one more request is handled
Handled == requests < MaxRequests /\ requests' = requests + 1

Response(op, id, code, err) == [op |-> op, id |-> id, code |-> code, err |-> err]

-----------------------------------------------------------------------------
(* Stuart courier client *)

\* what createReturnPickupJob / createDeliveryJob return for the k-th provider
\* job saved as local row dbId
JobResult(k, dbId) == [jobId |-> providerJobId(k), dbId |-> dbId, status |-> "new"]

StuartJobRow(k, type) == [stuartJobId |-> providerJobId(k), type |-> type, status |-> "new"]

\* Outcomes of a job-creating client call:
\*   "requestFail": authentication or the POST /v2/jobs request fails
\*   "saveFail":    the job is created, saving the local row throws
\*   "ok":          the job is created and saved
JobOutcomes == {"ok", "requestFail", "saveFail"}

\* The handlers below take the answer of a client call as one outcome; the
\* client's own steps, its bearer token included, are the methods that follow.

\* token lifetimes (expires_in) the courier answers, in seconds
ExpiresIn == {1, SecondsPerDay}

NoCall == [op |-> "none", exchange |-> "none", sent |-> FALSE, bearer |-> NULL,
           threw |-> FALSE]

\* constructor: accessToken = null, tokenExpiry = null
InitClient ==
    /\ accessToken = NULL
    /\ tokenExpiry = NULL
    /\ tokensIssued = 0
    /\ courierCall = NoCall

\* a token test that never looks at the expiry
TokenStaleNoExpiry == ~Truthy(accessToken)

\* !this.accessToken || Date.now() > this.tokenExpiry
TokenStale == ~Truthy(accessToken) \/ now > tokenExpiry

\* authenticate: the client-credentials exchange; the fields are assigned only
\* after the exchange has answered, a failure is rethrown
authenticate(authOk, expires_in) ==
    IF authOk
    THEN [accessToken |-> tokensIssued + 1, tokenExpiry |-> now + expires_in,
          issued |-> tokensIssued + 1, exchange |-> "done"]
    ELSE [accessToken |-> accessToken, tokenExpiry |-> tokenExpiry,
          issued |-> tokensIssued, exchange |-> "failed"]

\* ensureAuthenticated: the token held after it, and what it did
ensureAuthenticated(authOk, expires_in) ==
    IF TokenStale
    THEN authenticate(authOk, expires_in)
    ELSE [accessToken |-> accessToken, tokenExpiry |-> tokenExpiry,
          issued |-> tokensIssued, exchange |-> "none"]

\* The head of every method: await this.ensureAuthenticated() outside the try,
\* then the request with Authorization: Bearer ${this.accessToken}; answered
\* says whether the method got past its request (requestOk) and the rest.
ClientRequest(op, authOk, expires_in, answered) ==
    LET auth == ensureAuthenticated(authOk, expires_in)
        sent == auth.exchange # "failed"
    IN /\ accessToken' = auth.accessToken
       /\ tokenExpiry' = auth.tokenExpiry
       /\ tokensIssued' = auth.issued
       /\ courierCall' = [op |-> op, exchange |-> auth.exchange, sent |-> sent,
                          bearer |-> IF sent THEN auth.accessToken ELSE NULL,
                          threw |-> ~sent \/ ~answered]

\* a method that reads or changes nothing in the store
ClientCall(op, authOk, expires_in, requestOk) ==
    /\ Handled
    /\ ClientRequest(op, authOk, expires_in, requestOk)
    /\ UNCHANGED <<now, approves, authVars, notifyVars, confirms, orders, returnVars,
                   courierVars, deliveryVars, webhookVars, resp, listing, syncVars>>

getDeliveryQuote(authOk, expires_in, requestOk) ==
    ClientCall("getDeliveryQuote", authOk, expires_in, requestOk)

getJobStatus(authOk, expires_in, requestOk) ==
    ClientCall("getJobStatus", authOk, expires_in, requestOk)

cancelJob(authOk, expires_in, requestOk) ==
    ClientCall("cancelJob", authOk, expires_in, requestOk)

\* createDeliveryJob / createReturnPickupJob: POST /v2/jobs, then
\* prisma.stuartJob.create, both inside one try whose catch rethrows
CreateJob(op, type, authOk, expires_in, outcome) ==
    /\ Handled
    /\ ClientRequest(op, authOk, expires_in, outcome = "ok")
    /\ IF courierCall'.sent /\ outcome # "requestFail"
       THEN /\ providerJobs' = providerJobs + 1
            /\ stuartJobs' = IF outcome = "ok"
                             THEN Append(stuartJobs, StuartJobRow(providerJobs + 1, type))
                             ELSE stuartJobs
       ELSE UNCHANGED courierVars
    /\ UNCHANGED <<now, approves, authVars, notifyVars, confirms, orders, returnVars,
                   deliveryVars, webhookVars, resp, listing, syncVars>>

createDeliveryJob(authOk, expires_in, outcome) ==
    CreateJob("createDeliveryJob", "DELIVERY", authOk, expires_in, outcome)

createReturnPickupJob(authOk, expires_in, outcome) ==
    CreateJob("createReturnPickupJob", "RETURN_PICKUP", authOk, expires_in, outcome)

-----------------------------------------------------------------------------
(* Return handlers *)

daysSinceOrder(o) == (now - orders[o].createdAt) \div SecondsPerDay

ReturnWindowExpired(o) == daysSinceOrder(o) > ReturnWindowDays

ReturnExists(id) == id \in 1 .. Len(returns)

\* a Return row created without the order's total
NewReturnNoAmount(o) ==
    [orderId |-> o,
     customerId |-> orders[o].customerId,
     status |-> "INITIATED",
     returnAmount |-> NULL,
     stuartJobId |-> NULL,
     pickupDate |-> NULL,
     stripeRefundId |-> NULL,
     stuartPickupJobId |-> NULL,
     deliveredAt |-> NULL]

NewReturn(o) ==
    [orderId |-> o,
     customerId |-> orders[o].customerId,
     status |-> "INITIATED",
     returnAmount |-> orders[o].total,
     stuartJobId |-> NULL,
     pickupDate |-> NULL,
     stripeRefundId |-> NULL,
     stuartPickupJobId |-> NULL,
     deliveredAt |-> NULL]

\* a notification call outside any try/catch: its failure fails the handler
NotificationThrowsUncaught(notifyOk) == ~notifyOk

\* try { await notificationsRouter.post(...) } catch (error) { console.error }:
\* whether a failing customer notification gets past the handler's inner catch
NotificationThrows(notifyOk) == FALSE

\* what the handler's log shows of its customer notification
Notice(reached, notifyOk) ==
    IF ~reached THEN "none" ELSE IF notifyOk THEN "sent" ELSE "failed"

\* POST /returns/initiate, as its caller and the store see it
InitiateSteps(orderId, merchantOk, notifyOk) ==
    /\ Handled
    /\ IF orderId = NULL
       THEN /\ resp' = Response("initiate", orderId, 400, "orderId is required")
            /\ UNCHANGED <<returns, merchantNotifications>>
       ELSE IF orderId \notin OrderIds
       THEN /\ resp' = Response("initiate", orderId, 404, "Order not found")
            /\ UNCHANGED <<returns, merchantNotifications>>
       ELSE IF ReturnWindowExpired(orderId)
       THEN /\ resp' = Response("initiate", orderId, 400, "Return window expired (30 days)")
            /\ UNCHANGED <<returns, merchantNotifications>>
       ELSE /\ returns' = Append(returns, NewReturn(orderId))
            /\ IF merchantOk /\ ~NotificationThrows(notifyOk)
               THEN /\ merchantNotifications' = merchantNotifications + 1
                    /\ resp' = Response("initiate", orderId, 201, "")
               ELSE /\ UNCHANGED merchantNotifications
                    /\ resp' = Response("initiate", orderId, 500, "error")
    /\ UNCHANGED <<now, approves, authVars, notifyVars, confirms, clientVars, listing,
                   syncVars, orders, refunds, stripeCalls, stripeRefunds, courierVars,
                   deliveryVars, webhookVars>>

\* POST /returns/initiate
Initiate(orderId, merchantOk, notifyOk) ==
    /\ InitiateSteps(orderId, merchantOk, notifyOk)
    /\ notice' = Notice(Len(returns') > Len(returns), notifyOk)

\* data of the second update of approve, from the client's answer
PickupUpdate(row, pickupResponse) ==
    [row EXCEPT !.stuartJobId = SetCol(@, Field(pickupResponse, "id")),
                !.status = "PICKUP_SCHEDULED",
                !.pickupDate = SetCol(@, Field(pickupResponse, "scheduledDate"))]

\* a first update that forgets the status column
ApprovedRowNoStatus(row, returnAmount) ==
    [row EXCEPT !.returnAmount = OrElse(returnAmount, orders[row.orderId].total)]

\* data of the first update of approve
ApprovedRow(row, returnAmount) ==
    [row EXCEPT !.status = "APPROVED",
                !.returnAmount = OrElse(returnAmount, orders[row.orderId].total)]

\* POST /returns/:id/approve, as its caller and the store see it
ApproveSteps(id, returnAmount, outcome, notifyOk) ==
    /\ Handled
    /\ IF ~ReturnExists(id)
       THEN /\ resp' = Response("approve", id, 404, "Return not found")
            /\ UNCHANGED <<returns, courierVars>>
       ELSE LET approved == ApprovedRow(returns[id], returnAmount)
                k == providerJobs + 1
                dbId == Len(stuartJobs) + 1
            IN CASE outcome = "requestFail" ->
                       /\ returns' = [returns EXCEPT ![id] = approved]
                       /\ resp' = Response("approve", id, 500, "error")
                       /\ UNCHANGED courierVars
                 [] outcome = "saveFail" ->
                       /\ returns' = [returns EXCEPT ![id] = approved]
                       /\ providerJobs' = k
                       /\ resp' = Response("approve", id, 500, "error")
                       /\ UNCHANGED stuartJobs
                 [] OTHER ->
                       /\ providerJobs' = k
                       /\ stuartJobs' = Append(stuartJobs, StuartJobRow(k, "RETURN_PICKUP"))
                       /\ returns' = [returns EXCEPT ![id] =
                                         PickupUpdate(approved, JobResult(k, dbId))]
                       /\ resp' = IF NotificationThrows(notifyOk)
                                  THEN Response("approve", id, 500, "error")
                                  ELSE Response("approve", id, 200, "")
    /\ UNCHANGED <<now, approves, authVars, notifyVars, confirms, clientVars, listing,
                   syncVars, orders, refunds, stripeCalls, stripeRefunds,
                   merchantNotifications, deliveryVars, webhookVars>>

\* POST /returns/:id/approve
Approve(id, returnAmount, outcome, notifyOk) ==
    /\ ApproveSteps(id, returnAmount, outcome, notifyOk)
    /\ notice' = Notice(ReturnExists(id) /\ outcome = "ok", notifyOk)

\* POST /returns/:id/reject, as its caller and the store see it
RejectSteps(id, notifyOk) ==
    /\ Handled
    /\ IF ~ReturnExists(id)
       THEN /\ resp' = Response("reject", id, 500, "error")
            /\ UNCHANGED returns
       ELSE /\ returns' = [returns EXCEPT ![id].status = "REJECTED"]
            /\ resp' = IF NotificationThrows(notifyOk)
                       THEN Response("reject", id, 500, "error")
                       ELSE Response("reject", id, 200, "")
    /\ UNCHANGED <<now, approves, authVars, notifyVars, confirms, clientVars, listing,
                   syncVars, orders, refunds, stripeCalls, stripeRefunds,
                   merchantNotifications, courierVars, deliveryVars, webhookVars>>

\* POST /returns/:id/reject
Reject(id, notifyOk) ==
    /\ RejectSteps(id, notifyOk)
    /\ notice' = Notice(ReturnExists(id), notifyOk)

ApproveSlots == {1, 2}

IdleApprove == [pc |-> "idle", id |-> NULL, returnAmount |-> NULL, seen |-> ""]

InitApproves == approves = [s \in ApproveSlots |-> IdleApprove]

\* approve up to its first update, when requests interleave: findUnique and the
\* 404 answer; seen is the status of the row that findUnique returned
ApproveFind(slot, id, returnAmount) ==
    /\ Handled
    /\ approves[slot].pc = "idle"
    /\ IF ~ReturnExists(id)
       THEN /\ resp' = Response("approve", id, 404, "Return not found")
            /\ UNCHANGED approves
       ELSE /\ approves' = [approves EXCEPT ![slot] =
                               [pc |-> "found", id |-> id,
                                returnAmount |-> returnAmount,
                                seen |-> returns[id].status]]
            /\ UNCHANGED resp
    /\ UNCHANGED <<now, authVars, notifyVars, confirms, clientVars, listing, syncVars,
                   orders, returnVars, courierVars, deliveryVars, webhookVars>>

\* the first update of approve, up to the call of createReturnPickupJob
ApproveUpdate(slot) ==
    /\ approves[slot].pc = "found"
    /\ LET id == approves[slot].id
       IN returns' = [returns EXCEPT ![id] =
                         ApprovedRow(returns[id], approves[slot].returnAmount)]
    /\ approves' = [approves EXCEPT ![slot].pc = "scheduling"]
    /\ UNCHANGED <<now, authVars, notifyVars, confirms, clientVars, listing, syncVars,
                   orders, refunds, stripeCalls, merchantNotifications, notice,
                   stripeRefunds, courierVars, deliveryVars, webhookVars, resp,
                   requests>>

\* approve from createReturnPickupJob on: the courier job, the second update,
\* the customer notification, the answer
ApproveSchedule(slot, outcome, notifyOk) ==
    /\ approves[slot].pc = "scheduling"
    /\ approves' = [approves EXCEPT ![slot] = IdleApprove]
    /\ LET id == approves[slot].id
           k == providerJobs + 1
           dbId == Len(stuartJobs) + 1
       IN CASE outcome = "requestFail" ->
                  /\ resp' = Response("approve", id, 500, "error")
                  /\ UNCHANGED <<returns, courierVars>>
            [] outcome = "saveFail" ->
                  /\ providerJobs' = k
                  /\ resp' = Response("approve", id, 500, "error")
                  /\ UNCHANGED <<returns, stuartJobs>>
            [] OTHER ->
                  /\ providerJobs' = k
                  /\ stuartJobs' = Append(stuartJobs, StuartJobRow(k, "RETURN_PICKUP"))
                  /\ returns' = [returns EXCEPT ![id] =
                                    PickupUpdate(returns[id], JobResult(k, dbId))]
                  /\ resp' = IF NotificationThrows(notifyOk)
                             THEN Response("approve", id, 500, "error")
                             ELSE Response("approve", id, 200, "")
    /\ notice' = Notice(outcome = "ok", notifyOk)
    /\ UNCHANGED <<now, authVars, notifyVars, confirms, clientVars, listing, syncVars,
                   orders, refunds, stripeCalls, merchantNotifications, stripeRefunds,
                   deliveryVars, webhookVars, requests>>

\* a state check that also lets a return still in transit through
RefundAllowedInTransit(row) == row.status \in {"RECEIVED", "IN_TRANSIT"}

\* the state check of process-refund
RefundAllowed(row) == row.status = "RECEIVED"

\* the request of stripe.refunds.create for a return
RefundRequest(row) ==
    [payment_intent |-> orders[row.orderId].stripePaymentIntentId,
     amount |-> row.returnAmount]

\* a refund record that takes its amount from the order
RefundRecordOrderTotal(id, refundId) ==
    [returnId |-> id,
     orderId |-> returns[id].orderId,
     amount |-> orders[returns[id].orderId].total,
     stripeRefundId |-> refundId]

\* the row of prisma.refund.create
RefundRecord(id, refundId) ==
    [returnId |-> id,
     orderId |-> returns[id].orderId,
     amount |-> returns[id].returnAmount,
     stripeRefundId |-> refundId]

\* POST /returns/:id/process-refund, as its caller and the store see it
ProcessRefundSteps(id, stripeOk, notifyOk) ==
    /\ Handled
    /\ IF ~ReturnExists(id)
       THEN /\ resp' = Response("processRefund", id, 404, "Return not found")
            /\ UNCHANGED <<returns, refunds, stripeCalls, stripeRefunds>>
       ELSE IF ~RefundAllowed(returns[id])
       THEN /\ resp' = Response("processRefund", id, 400,
                                "Return must be received before processing refund")
            /\ UNCHANGED <<returns, refunds, stripeCalls, stripeRefunds>>
       ELSE /\ stripeCalls' = stripeCalls + 1
            /\ IF stripeOk
               THEN /\ stripeRefunds' = Append(stripeRefunds, RefundRequest(returns[id]))
                    /\ returns' = [returns EXCEPT ![id].status = "REFUNDED",
                                                  ![id].stripeRefundId = Len(stripeRefunds) + 1]
                    /\ refunds' = Append(refunds, RefundRecord(id, Len(stripeRefunds) + 1))
                    /\ resp' = IF NotificationThrows(notifyOk)
                               THEN Response("processRefund", id, 500, "error")
                               ELSE Response("processRefund", id, 200, "")
               ELSE /\ resp' = Response("processRefund", id, 500, "error")
                    /\ UNCHANGED <<returns, refunds, stripeRefunds>>
    /\ UNCHANGED <<now, approves, authVars, notifyVars, confirms, clientVars, listing,
                   syncVars, orders, merchantNotifications, courierVars, deliveryVars,
                   webhookVars>>

\* POST /returns/:id/process-refund
ProcessRefund(id, stripeOk, notifyOk) ==
    /\ ProcessRefundSteps(id, stripeOk, notifyOk)
    /\ notice' = Notice(ReturnExists(id) /\ RefundAllowed(returns[id]) /\ stripeOk, notifyOk)

\* PATCH /returns/:id/status
UpdateReturnStatus(id, status) ==
    /\ Handled
    /\ IF status \notin RETURN_STATUS
       THEN /\ resp' = Response("updateReturnStatus", id, 400, "Invalid status")
            /\ UNCHANGED returns
       ELSE IF ~ReturnExists(id)
       THEN /\ resp' = Response("updateReturnStatus", id, 500, "error")
            /\ UNCHANGED returns
       ELSE /\ returns' = [returns EXCEPT ![id].status = status]
            /\ resp' = Response("updateReturnStatus", id, 200, "")
    /\ UNCHANGED <<now, approves, authVars, notifyVars, confirms, clientVars, listing,
                   syncVars, orders, refunds, stripeCalls, stripeRefunds,
                   merchantNotifications, notice, courierVars, deliveryVars,
                   webhookVars>>

\* The instants at which requests arrive: the start of the clock, a second
\* later, a second short of a day later, a day later, then second by second.
TimePoint(i) ==
    CASE i = 0 -> Now0
      [] i = 1 -> Now0 + 1
      [] i = 2 -> Now0 + SecondsPerDay - 1
      [] OTHER -> Now0 + SecondsPerDay + (i - 3)

\* the clock advances to the next instant
Tick ==
    /\ \E i \in 0 .. (MaxTicks - 1) : now = TimePoint(i) /\ now' = TimePoint(i + 1)
    /\ UNCHANGED <<orders, returnVars, courierVars, deliveryVars, webhookVars, resp,
                   requests, listing, syncVars, clientVars, notifyVars, confirms,
                   approves, authVars>>

-----------------------------------------------------------------------------
(* Delivery handlers *)

DELIVERY_STATUS ==
    {"QUOTE_REQUESTED", "QUOTE_PROVIDED", "CONFIRMED", "PICKING_UP", "IN_TRANSIT",
     "ARRIVING", "DELIVERED", "DELIVERY_FAILED", "CANCELLED"}

\* job states the courier reports from GET /v2/jobs/:id
ProviderStatuses == {"in_progress", "finished"}

\* what getDeliveryQuote returns: price and ETAs, nothing else
QuoteResult == [price |-> 700, pickupEta |-> 5, deliveryEta |-> 20, distance |-> 3]

QuoteExists(id) == id \in 1 .. Len(quotes)
DeliveryExists(id) == id \in 1 .. Len(deliveries)

\* POST /delivery/quote
GetQuote(orderId, hasAddress, courierOk) ==
    /\ Handled
    /\ IF orderId = NULL \/ ~hasAddress
       THEN /\ resp' = Response("quote", orderId, 400, "orderId and deliveryAddress required")
            /\ UNCHANGED quotes
       ELSE IF ~courierOk
       THEN /\ resp' = Response("quote", orderId, 500, "error")
            /\ UNCHANGED quotes
       ELSE /\ quotes' = Append(quotes,
                            [orderId |-> orderId,
                             price |-> Field(QuoteResult, "price"),
                             expiresAt |-> Field(QuoteResult, "expiresAt"),
                             status |-> "ACTIVE"])
            /\ resp' = Response("quote", orderId, 200, "")
    /\ UNCHANGED <<now, approves, authVars, notifyVars, confirms, clientVars, listing,
                   syncVars, orders, returnVars, courierVars, deliveries, completions,
                   webhookVars>>

\* a quote check that looks at the existence of the quote only
QuoteUsableAnyStatus(quoteId) == QuoteExists(quoteId)

\* the quote check of confirm: the quote exists and is ACTIVE
QuoteUsable(quoteId) == QuoteExists(quoteId) /\ quotes[quoteId].status = "ACTIVE"

\* a Delivery row that does not name its quote
NewDeliveryNoQuote(orderId, quoteId, jobResponse) ==
    [orderId |-> orderId,
     stuartJobId |-> Field(jobResponse, "id"),
     status |-> "CONFIRMED",
     price |-> quotes[quoteId].price,
     estimatedDeliveryTime |-> Field(jobResponse, "scheduledDate"),
     quoteId |-> NULL,
     cancellationReason |-> ""]

\* the Delivery row confirm creates from the client's answer
NewDelivery(orderId, quoteId, jobResponse) ==
    [orderId |-> orderId,
     stuartJobId |-> Field(jobResponse, "id"),
     status |-> "CONFIRMED",
     price |-> quotes[quoteId].price,
     estimatedDeliveryTime |-> Field(jobResponse, "scheduledDate"),
     quoteId |-> quoteId,
     cancellationReason |-> ""]

\* POST /delivery/orders/:orderId/confirm
Confirm(orderId, quoteId, outcome) ==
    /\ Handled
    /\ IF quoteId = NULL
       THEN /\ resp' = Response("confirm", orderId, 400, "quoteId required")
            /\ UNCHANGED <<orders, quotes, deliveries, courierVars>>
       ELSE IF ~QuoteUsable(quoteId)
       THEN /\ resp' = Response("confirm", orderId, 400, "Quote not found or expired")
            /\ UNCHANGED <<orders, quotes, deliveries, courierVars>>
       ELSE IF orderId \notin OrderIds
       THEN /\ resp' = Response("confirm", orderId, 404, "Order not found")
            /\ UNCHANGED <<orders, quotes, deliveries, courierVars>>
       ELSE LET k == providerJobs + 1
                dbId == Len(stuartJobs) + 1
            IN CASE outcome = "requestFail" ->
                       /\ resp' = Response("confirm", orderId, 500, "error")
                       /\ UNCHANGED <<orders, quotes, deliveries, courierVars>>
                 [] outcome = "saveFail" ->
                       /\ providerJobs' = k
                       /\ resp' = Response("confirm", orderId, 500, "error")
                       /\ UNCHANGED <<orders, quotes, deliveries, stuartJobs>>
                 [] OTHER ->
                       /\ providerJobs' = k
                       /\ stuartJobs' = Append(stuartJobs, StuartJobRow(k, "DELIVERY"))
                       /\ deliveries' = Append(deliveries,
                                           NewDelivery(orderId, quoteId, JobResult(k, dbId)))
                       /\ quotes' = [quotes EXCEPT ![quoteId].status = "ACCEPTED"]
                       /\ orders' = [orders EXCEPT
                                        ![orderId].status = "DELIVERY_CONFIRMED",
                                        ![orderId].deliveryId = Len(deliveries) + 1]
                       /\ resp' = Response("confirm", orderId, 200, "")
    /\ UNCHANGED <<now, approves, authVars, notifyVars, confirms, clientVars, listing,
                   syncVars, returnVars, completions, webhookVars>>

\* confirm requests that can be under way at once
ConfirmSlots == {1, 2}

IdleConfirm == [pc |-> "idle", orderId |-> NULL, quoteId |-> NULL]

\* confirm up to its call of createDeliveryJob, when requests interleave: the
\* reads and checks of the quote and of the order
ConfirmRead(slot, orderId, quoteId) ==
    /\ Handled
    /\ confirms[slot].pc = "idle"
    /\ IF quoteId = NULL
       THEN /\ resp' = Response("confirm", orderId, 400, "quoteId required")
            /\ UNCHANGED confirms
       ELSE IF ~QuoteUsable(quoteId)
       THEN /\ resp' = Response("confirm", orderId, 400, "Quote not found or expired")
            /\ UNCHANGED confirms
       ELSE IF orderId \notin OrderIds
       THEN /\ resp' = Response("confirm", orderId, 404, "Order not found")
            /\ UNCHANGED confirms
       ELSE /\ confirms' = [confirms EXCEPT ![slot] =
                               [pc |-> "checked", orderId |-> orderId,
                                quoteId |-> quoteId]]
            /\ UNCHANGED resp
    /\ UNCHANGED <<now, approves, authVars, notifyVars, clientVars, listing, syncVars,
                   orders, returnVars, courierVars, deliveryVars, webhookVars>>

\* confirm from createDeliveryJob on: the courier job, the Delivery, the quote
\* and the order writes, the answer
ConfirmWrite(slot, outcome) ==
    /\ confirms[slot].pc = "checked"
    /\ confirms' = [confirms EXCEPT ![slot] = IdleConfirm]
    /\ LET orderId == confirms[slot].orderId
           quoteId == confirms[slot].quoteId
           k == providerJobs + 1
           dbId == Len(stuartJobs) + 1
       IN CASE outcome = "requestFail" ->
                  /\ resp' = Response("confirm", orderId, 500, "error")
                  /\ UNCHANGED <<orders, quotes, deliveries, courierVars>>
            [] outcome = "saveFail" ->
                  /\ providerJobs' = k
                  /\ resp' = Response("confirm", orderId, 500, "error")
                  /\ UNCHANGED <<orders, quotes, deliveries, stuartJobs>>
            [] OTHER ->
                  /\ providerJobs' = k
                  /\ stuartJobs' = Append(stuartJobs, StuartJobRow(k, "DELIVERY"))
                  /\ deliveries' = Append(deliveries,
                                      NewDelivery(orderId, quoteId, JobResult(k, dbId)))
                  /\ quotes' = [quotes EXCEPT ![quoteId].status = "ACCEPTED"]
                  /\ orders' = [orders EXCEPT
                                   ![orderId].status = "DELIVERY_CONFIRMED",
                                   ![orderId].deliveryId = Len(deliveries) + 1]
                  /\ resp' = Response("confirm", orderId, 200, "")
    /\ UNCHANGED <<now, approves, authVars, notifyVars, clientVars, listing, syncVars,
                   returnVars, completions, webhookVars, requests>>

DeliveriesOf(orderId) == {d \in 1 .. Len(deliveries) : deliveries[d].orderId = orderId}

\* findFirst({where: {orderId}, orderBy: {createdAt: 'desc'}})
LatestDelivery(orderId) ==
    CHOOSE d \in DeliveriesOf(orderId) : \A e \in DeliveriesOf(orderId) : e <= d

\* GET /delivery/orders/:orderId; gateway is "fail" or the status the courier reports
GetStatus(orderId, gateway) ==
    /\ Handled
    /\ IF DeliveriesOf(orderId) = {}
       THEN /\ resp' = Response("getStatus", orderId, 404, "Delivery not found")
            /\ UNCHANGED deliveries
       ELSE LET d == LatestDelivery(orderId)
            IN IF Truthy(deliveries[d].stuartJobId)
               THEN IF gateway = "fail"
                    THEN /\ resp' = Response("getStatus", orderId, 500, "error")
                         /\ UNCHANGED deliveries
                    ELSE /\ deliveries' =
                               IF gateway # deliveries[d].status
                               THEN [deliveries EXCEPT ![d].status = gateway]
                               ELSE deliveries
                         /\ resp' = Response("getStatus", orderId, 200, "")
               ELSE /\ resp' = Response("getStatus", orderId, 200, "")
                    /\ UNCHANGED deliveries
    /\ UNCHANGED <<now, approves, authVars, notifyVars, confirms, clientVars, listing,
                   syncVars, orders, returnVars, courierVars, quotes, completions,
                   webhookVars>>

\* an update that copies every status to the parent Order
UpdateDeliveryStatusCopied(deliveryId, status) ==
    /\ Handled
    /\ IF status = ""
       THEN /\ resp' = Response("updateDeliveryStatus", deliveryId, 400, "status required")
            /\ UNCHANGED <<deliveries, orders, completions>>
       ELSE IF status \notin DELIVERY_STATUS
       THEN /\ resp' = Response("updateDeliveryStatus", deliveryId, 400,
                                "Invalid delivery status")
            /\ UNCHANGED <<deliveries, orders, completions>>
       ELSE IF ~DeliveryExists(deliveryId)
       THEN /\ resp' = Response("updateDeliveryStatus", deliveryId, 500, "error")
            /\ UNCHANGED <<deliveries, orders, completions>>
       ELSE /\ deliveries' = [deliveries EXCEPT ![deliveryId].status = status]
            /\ orders' = [orders EXCEPT ![deliveries[deliveryId].orderId].status = status]
            /\ completions' = [completions EXCEPT ![deliveries[deliveryId].orderId] = @ + 1]
            /\ resp' = Response("updateDeliveryStatus", deliveryId, 200, "")
    /\ UNCHANGED <<now, approves, authVars, notifyVars, confirms, clientVars, listing,
                   syncVars, returnVars, courierVars, quotes, webhookVars>>

\* PUT /delivery/:deliveryId; status "" stands for a body without status
UpdateDeliveryStatus(deliveryId, status) ==
    /\ Handled
    /\ IF status = ""
       THEN /\ resp' = Response("updateDeliveryStatus", deliveryId, 400, "status required")
            /\ UNCHANGED <<deliveries, orders, completions>>
       ELSE IF status \notin DELIVERY_STATUS
       THEN /\ resp' = Response("updateDeliveryStatus", deliveryId, 400,
                                "Invalid delivery status")
            /\ UNCHANGED <<deliveries, orders, completions>>
       ELSE IF ~DeliveryExists(deliveryId)
       THEN /\ resp' = Response("updateDeliveryStatus", deliveryId, 500, "error")
            /\ UNCHANGED <<deliveries, orders, completions>>
       ELSE /\ deliveries' = [deliveries EXCEPT ![deliveryId].status = status]
            /\ IF status = "DELIVERED"
               THEN LET o == deliveries[deliveryId].orderId
                    IN /\ orders' = [orders EXCEPT ![o].status = "DELIVERED"]
                       /\ completions' = [completions EXCEPT ![o] = @ + 1]
               ELSE UNCHANGED <<orders, completions>>
            /\ resp' = Response("updateDeliveryStatus", deliveryId, 200, "")
    /\ UNCHANGED <<now, approves, authVars, notifyVars, confirms, clientVars, listing,
                   syncVars, returnVars, courierVars, quotes, webhookVars>>

\* a cancel that writes the Delivery before it asks the courier
CancelDeliveryUpdateFirst(deliveryId, cancelOk) ==
    /\ Handled
    /\ IF ~DeliveryExists(deliveryId)
       THEN /\ resp' = Response("cancel", deliveryId, 404, "Delivery not found")
            /\ UNCHANGED deliveries
       ELSE /\ deliveries' = [deliveries EXCEPT
                                 ![deliveryId].status = "CANCELLED",
                                 ![deliveryId].cancellationReason = "reason"]
            /\ resp' = IF Truthy(deliveries[deliveryId].stuartJobId) /\ ~cancelOk
                       THEN Response("cancel", deliveryId, 500, "error")
                       ELSE Response("cancel", deliveryId, 200, "")
    /\ UNCHANGED <<now, approves, authVars, notifyVars, confirms, clientVars, listing,
                   syncVars, orders, returnVars, courierVars, quotes, completions,
                   webhookVars>>

\* POST /delivery/:deliveryId/cancel
CancelDelivery(deliveryId, cancelOk) ==
    /\ Handled
    /\ IF ~DeliveryExists(deliveryId)
       THEN /\ resp' = Response("cancel", deliveryId, 404, "Delivery not found")
            /\ UNCHANGED deliveries
       ELSE IF Truthy(deliveries[deliveryId].stuartJobId) /\ ~cancelOk
       THEN /\ resp' = Response("cancel", deliveryId, 500, "error")
            /\ UNCHANGED deliveries
       ELSE /\ deliveries' = [deliveries EXCEPT
                                 ![deliveryId].status = "CANCELLED",
                                 ![deliveryId].cancellationReason = "reason"]
            /\ resp' = Response("cancel", deliveryId, 200, "")
    /\ UNCHANGED <<now, approves, authVars, notifyVars, confirms, clientVars, listing,
                   syncVars, orders, returnVars, courierVars, quotes, completions,
                   webhookVars>>

-----------------------------------------------------------------------------
(* Webhook receivers *)

\* logWebhook: writes one row; a failing write is caught and only printed
logWebhook(log, source, event, processed, error, logOk) ==
    IF logOk
    THEN Append(log, [source |-> source, event |-> event, processed |-> processed,
                      error |-> error])
    ELSE log

\* The Shopify topic handlers of routes/webhooks.js: log, announce the queued
\* work (which reads a property of the body), answer 200; any throw is logged
\* and answered with 500.  hasBody is whether req.body is an object.
ShopifyTopicHandler(event, hasBody, logOk) ==
    /\ Handled
    /\ IF hasBody
       THEN /\ webhookLog' = logWebhook(webhookLog, "shopify", event, FALSE, "", logOk)
            /\ resp' = Response(event, NULL, 200, "")
       ELSE /\ webhookLog' = logWebhook(
                                logWebhook(webhookLog, "shopify", event, FALSE, "", logOk),
                                "shopify", event, FALSE, "error", logOk)
            /\ resp' = Response(event, NULL, 500, "error")
    /\ UNCHANGED <<now, approves, authVars, notifyVars, confirms, clientVars, listing,
                   syncVars, orders, returnVars, courierVars, deliveryVars,
                   medusaProducts>>

handleShopifyProductCreate(hasBody, logOk) ==
    ShopifyTopicHandler("product/create", hasBody, logOk)

handleShopifyProductUpdate(hasBody, logOk) ==
    ShopifyTopicHandler("product/update", hasBody, logOk)

handleShopifyInventoryUpdate(hasBody, logOk) ==
    ShopifyTopicHandler("inventory_levels/update", hasBody, logOk)

handleShopifyOrderCreate(hasBody, logOk) ==
    ShopifyTopicHandler("orders/create", hasBody, logOk)

\* the local job row whose provider id is job_id, or NULL
FindStuartJob(job_id) ==
    IF \E j \in 1 .. Len(stuartJobs) : stuartJobs[j].stuartJobId = job_id
    THEN CHOOSE j \in 1 .. Len(stuartJobs) : stuartJobs[j].stuartJobId = job_id
    ELSE NULL

\* handleStuartWebhook; dbOk is whether the job lookup succeeds
handleStuartWebhook(job_id, status, event_type, dbOk, logOk) ==
    /\ Handled
    /\ LET event == IF event_type = "delivered" THEN "job/delivered" ELSE "job/update"
           logged == logWebhook(webhookLog, "stuart", event, FALSE, "", logOk)
           j == FindStuartJob(job_id)
       IN IF ~dbOk
          THEN /\ webhookLog' = logWebhook(logged, "stuart", "job/error", FALSE, "error", logOk)
               /\ resp' = Response("stuartWebhook", job_id, 500, "error")
               /\ UNCHANGED <<stuartJobs, orders, returns, completions>>
          ELSE IF j = NULL
          THEN /\ webhookLog' = logged
               /\ resp' = Response("stuartWebhook", job_id, 404, "Job not found")
               /\ UNCHANGED <<stuartJobs, orders, returns, completions>>
          ELSE /\ stuartJobs' = [stuartJobs EXCEPT ![j].status = status]
               /\ IF event_type = "delivered"
                  THEN /\ orders' = [o \in OrderIds |->
                                        IF orders[o].stuartJobId = j
                                        THEN [orders[o] EXCEPT !.deliveryStatus = "DELIVERED"]
                                        ELSE orders[o]]
                       /\ completions' = [o \in OrderIds |->
                                             IF orders[o].stuartJobId = j
                                             THEN completions[o] + 1
                                             ELSE completions[o]]
                       /\ returns' = [r \in 1 .. Len(returns) |->
                                         IF returns[r].stuartPickupJobId = j
                                         THEN [returns[r] EXCEPT !.deliveredAt = now]
                                         ELSE returns[r]]
                  ELSE UNCHANGED <<orders, returns, completions>>
               /\ webhookLog' = logWebhook(logged, "stuart", event, TRUE, "", logOk)
               /\ resp' = Response("stuartWebhook", job_id, 200, "")
    /\ UNCHANGED <<now, approves, authVars, notifyVars, confirms, clientVars, listing,
                   syncVars, refunds, stripeCalls, stripeRefunds,
                   merchantNotifications, notice, providerJobs, quotes, deliveries,
                   medusaProducts>>

\* handleMedusaOrderCreated; hasCustomer is whether the body names a customer
handleMedusaOrderCreated(hasCustomer, logOk) ==
    /\ Handled
    /\ IF hasCustomer
       THEN /\ webhookLog' = logWebhook(webhookLog, "medusa", "order.created", FALSE, "", logOk)
            /\ resp' = Response("order.created", NULL, 200, "")
       ELSE /\ webhookLog' = logWebhook(
                                logWebhook(webhookLog, "medusa", "order.created", FALSE, "",
                                           logOk),
                                "medusa", "order.created", FALSE, "error", logOk)
            /\ resp' = Response("order.created", NULL, 500, "error")
    /\ UNCHANGED <<now, approves, authVars, notifyVars, confirms, clientVars, listing,
                   syncVars, orders, returnVars, courierVars, deliveryVars,
                   medusaProducts>>

\* handleMedusaOrderCompleted
handleMedusaOrderCompleted(logOk) ==
    /\ Handled
    /\ webhookLog' = logWebhook(webhookLog, "medusa", "order.completed", FALSE, "", logOk)
    /\ resp' = Response("order.completed", NULL, 200, "")
    /\ UNCHANGED <<now, approves, authVars, notifyVars, confirms, clientVars, listing,
                   syncVars, orders, returnVars, courierVars, deliveryVars,
                   medusaProducts>>

ShopifyTopics ==
    {"products/create", "products/update", "products/delete", "inventory_levels/update",
     "app/uninstalled"}

\* POST /shopify of the webhook router: answers 200 first, then processes the
\* topic against Medusa; medusaOk is whether the Medusa requests succeed
ShopifyRouter(topic, product, medusaOk) ==
    /\ Handled
    /\ resp' = Response("shopifyRouter", product, 200, "")
    /\ medusaProducts' =
          CASE topic \in {"products/create", "products/update"} /\ medusaOk ->
                   medusaProducts \cup {product}
            [] topic = "products/delete" /\ medusaOk -> medusaProducts \ {product}
            [] OTHER -> medusaProducts
    /\ UNCHANGED <<now, approves, authVars, notifyVars, confirms, clientVars, listing,
                   syncVars, orders, returnVars, courierVars, deliveryVars,
                   webhookLog>>

-----------------------------------------------------------------------------
(* List-by-status reads *)

\* const { limit = 50, offset = 0 } = req.query
DefaultLimit == 50

\* Math.min(parseInt(limit), 100)
MaxPageSize == 100

\* the number NaN
NaN == -2

\* parseInt of a query value; the values a request can carry are the strings
\* below, "" standing for an absent parameter
QueryValues == {"", "0", "1", "2", "2x", "99", "100", "101", "150", "abc"}

LimitInputs == {"", "0", "2x", "150", "abc"}
OffsetInputs == {"", "1", "abc"}

parseInt(v) ==
    CASE v = "0" -> 0
      [] v = "1" -> 1
      [] v = "2" -> 2
      [] v = "2x" -> 2
      [] v = "99" -> 99
      [] v = "100" -> 100
      [] v = "101" -> 101
      [] v = "150" -> 150
      [] OTHER -> NaN

\* a page size without the cap
TakeUncapped(limit) == IF limit = "" THEN DefaultLimit ELSE parseInt(limit)

\* take: Math.min(parseInt(limit), 100), with limit defaulting to 50
Take(limit) ==
    LET n == IF limit = "" THEN DefaultLimit ELSE parseInt(limit)
    IN IF n = NaN THEN NaN ELSE IF n < MaxPageSize THEN n ELSE MaxPageSize

\* skip: parseInt(offset), with offset defaulting to 0
Skip(offset) == IF offset = "" THEN 0 ELSE parseInt(offset)

\* where: { status }, orderBy: { createdAt: 'desc' }: the ids of the rows with
\* the status, newest first
RowsWithStatus(rows, status) ==
    SelectSeq([i \in 1 .. Len(rows) |-> Len(rows) + 1 - i],
              LAMBDA id : rows[id].status = status)

\* findMany with skip and take
Page(ids, skip, take) ==
    SubSeq(ids, skip + 1, IF skip + take < Len(ids) THEN skip + take ELSE Len(ids))

NoListing == [items |-> << >>, total |-> 0, limit |-> 0, offset |-> 0]

\* a list read that does not look at the status value
ListByStatusUnchecked(op, rows, statuses, status, limit, offset) ==
    /\ Handled
    /\ IF Take(limit) = NaN \/ Skip(offset) = NaN
       THEN /\ resp' = Response(op, NULL, 500, "error")
            /\ listing' = NoListing
       ELSE /\ resp' = Response(op, NULL, 200, "")
            /\ listing' = [items |-> Page(RowsWithStatus(rows, status), Skip(offset),
                                          Take(limit)),
                           total |-> Len(RowsWithStatus(rows, status)),
                           limit |-> Take(limit),
                           offset |-> Skip(offset)]
    /\ UNCHANGED <<now, approves, authVars, notifyVars, confirms, clientVars, orders,
                   returnVars, courierVars, deliveryVars, webhookVars, syncVars>>

\* the body of GET /status/:status of either router over its table
ListByStatus(op, rows, statuses, status, limit, offset) ==
    /\ Handled
    /\ IF status \notin statuses
       THEN /\ resp' = Response(op, NULL, 400, "Invalid status")
            /\ listing' = NoListing
       ELSE IF Take(limit) = NaN \/ Skip(offset) = NaN
       THEN /\ resp' = Response(op, NULL, 500, "error")
            /\ listing' = NoListing
       ELSE /\ resp' = Response(op, NULL, 200, "")
            /\ listing' = [items |-> Page(RowsWithStatus(rows, status), Skip(offset),
                                          Take(limit)),
                           total |-> Len(RowsWithStatus(rows, status)),
                           limit |-> Take(limit),
                           offset |-> Skip(offset)]
    /\ UNCHANGED <<now, approves, authVars, notifyVars, confirms, clientVars, orders,
                   returnVars, courierVars, deliveryVars, webhookVars, syncVars>>

\* GET /returns/status/:status
ListReturnsByStatus(status, limit, offset) ==
    ListByStatus("listReturns", returns, RETURN_STATUS, status, limit, offset)

\* GET /delivery/status/:status
ListDeliveriesByStatus(status, limit, offset) ==
    ListByStatus("listDeliveries", deliveries, DELIVERY_STATUS, status, limit, offset)

-----------------------------------------------------------------------------
(* Customer notifications: sendEmail and sendSMS of routes/notifications *)

NotificationRow(type, status, externalId) ==
    [type |-> type, status |-> status, externalId |-> externalId]

\* no message was sent
InitNotify ==
    /\ notifications = << >>
    /\ providerMessages = 0

\* The body shared by sendEmail and sendSMS:
\*   try { check; send; prisma.notification.create(SENT); return }
\*   catch { prisma.notification.create(FAILED); throw }
\* usable is the check (template known / phone and message given), providerOk
\* the provider's answer, logOk and failLogOk the two log writes.
SendNotification(type, usable, providerOk, logOk, failLogOk) ==
    /\ Handled
    /\ LET accepted == usable /\ providerOk
           thrown == ~accepted \/ ~logOk
           afterTry == IF accepted /\ logOk
                       THEN Append(notifications,
                                   NotificationRow(type, "SENT", providerMessages + 1))
                       ELSE notifications
       IN /\ providerMessages' = IF accepted THEN providerMessages + 1
                                 ELSE providerMessages
          /\ notifications' = IF thrown /\ failLogOk
                              THEN Append(afterTry, NotificationRow(type, "FAILED", NULL))
                              ELSE afterTry
    /\ UNCHANGED <<now, approves, authVars, confirms, clientVars, orders, returnVars,
                   courierVars, deliveryVars, webhookVars, resp, listing, syncVars>>

sendEmail(templateKnown, providerOk, logOk, failLogOk) ==
    SendNotification("EMAIL", templateKnown, providerOk, logOk, failLogOk)

sendSMS(hasPhoneAndMessage, providerOk, logOk, failLogOk) ==
    SendNotification("SMS", hasPhoneAndMessage, providerOk, logOk, failLogOk)

-----------------------------------------------------------------------------
(* Product synchronisation *)

StoreIds == {1, 2}

\* a store whose Medusa configuration is missing, and an id that names no store
IncompleteStore == Cardinality(StoreIds) + 1
NoSuchStore == Cardinality(StoreIds) + 2

Product(id, handle) == [id |-> id, handle |-> handle]

\* The product lists a fetch from Shopify can return: none, two products, and
\* the first product again after the merchant changed its handle.
CatalogLists ==
    {<< >>, <<Product(1, "shirt"), Product(2, "cap")>>, <<Product(1, "tee")>>}

\* Outcomes of one pass of the loop body:
\*   "transformFail": the transform throws
\*   "medusaFail":    the request to Medusa fails
\*   "mappingFail":   the product is in Medusa, saving the mapping throws
\*   "ok":            the product is in Medusa and the mapping is saved
ProductOutcomes == {"ok", "transformFail", "medusaFail", "mappingFail"}

\* the sync invocations that can be in progress at once
RunIds == {1, 2}

\* one more sync invocation is started
Started == requests < MaxRuns /\ requests' = requests + 1

\* the Medusa backend of syncShopifyStore's medusaClient; a store's own backend
\* (store.medusaConfig) carries the store's id
SharedBackend == 0

IdleRun ==
    [pc |-> "idle", impl |-> "", store |-> NULL, list |-> << >>, pos |-> 0,
     synced |-> 0, total |-> 0, errors |-> << >>, logged |-> 0, code |-> 0]

\* the rows of a mapping table for a (store, source product id) pair
KeyRows(table, storeId, shopifyProductId) ==
    {i \in 1 .. Len(table) : /\ table[i].storeId = storeId
                             /\ table[i].shopifyProductId = shopifyProductId}

MappingRow(storeId, shopifyProductId, medusaProductId) ==
    [storeId |-> storeId, shopifyProductId |-> shopifyProductId,
     medusaProductId |-> medusaProductId]

\* a save that creates a row every time
saveProductMappingCreate(table, storeId, shopifyProductId, medusaProductId) ==
    Append(table, MappingRow(storeId, shopifyProductId, medusaProductId))

\* saveProductMapping: prisma upsert on the (store, source product id) key
saveProductMapping(table, storeId, shopifyProductId, medusaProductId) ==
    IF KeyRows(table, storeId, shopifyProductId) = {}
    THEN Append(table, MappingRow(storeId, shopifyProductId, medusaProductId))
    ELSE [i \in 1 .. Len(table) |->
            IF i \in KeyRows(table, storeId, shopifyProductId)
            THEN [table[i] EXCEPT !.medusaProductId = medusaProductId]
            ELSE table[i]]

\* GET /admin/products?handle=...: the id of products[0], or NULL
FindByHandle(backend, handle) ==
    LET found == {i \in 1 .. Len(medusaCatalog) : /\ medusaCatalog[i].backend = backend
                                                  /\ medusaCatalog[i].handle = handle}
    IN IF found = {} THEN NULL ELSE CHOOSE i \in found : \A j \in found : i <= j

\* the id syncProductToMedusa of routes/sync-products.js returns: the product
\* found by handle is updated, else one is created
RouteMedusaId(backend, handle) ==
    IF FindByHandle(backend, handle) # NULL
    THEN FindByHandle(backend, handle)
    ELSE Len(medusaCatalog) + 1

RouteMedusaCatalog(backend, handle) ==
    IF FindByHandle(backend, handle) # NULL
    THEN medusaCatalog
    ELSE Append(medusaCatalog, [backend |-> backend, handle |-> handle])

\* a loop that stops at the first pass that throws
AfterPassAbort(run, failed, reported) ==
    LET r == syncRuns[run]
        last == r.pos = Len(r.list) \/ failed
    IN [r EXCEPT !.pos = @ + 1,
                 !.synced = IF failed THEN @ ELSE @ + 1,
                 !.logged = IF failed THEN @ + 1 ELSE @,
                 !.errors = IF failed /\ reported THEN Append(@, r.list[r.pos].id) ELSE @,
                 !.pc = IF last THEN "done" ELSE "loop",
                 !.code = IF last THEN 200 ELSE @]

\* the run after one pass of the loop body; failed is whether the pass threw
AfterPass(run, failed, reported) ==
    LET r == syncRuns[run]
        last == r.pos = Len(r.list)
    IN [r EXCEPT !.pos = @ + 1,
                 !.synced = IF failed THEN @ ELSE @ + 1,
                 !.logged = IF failed THEN @ + 1 ELSE @,
                 !.errors = IF failed /\ reported THEN Append(@, r.list[r.pos].id) ELSE @,
                 !.pc = IF last THEN "done" ELSE "loop",
                 !.code = IF last THEN 200 ELSE @]

InLoop(run, impl) ==
    /\ syncRuns[run].pc = "loop"
    /\ syncRuns[run].impl = impl

\* POST /sync-products/:storeId up to the loop: the store and configuration
\* checks and the fetch from Shopify
SyncProducts(run, storeId, fetchOk, list) ==
    /\ Started
    /\ syncRuns[run].pc \in {"idle", "done"}
    /\ LET started == [IdleRun EXCEPT !.impl = "route", !.store = storeId]
           answer(code) == /\ syncRuns' = [syncRuns EXCEPT ![run] =
                                              [started EXCEPT !.pc = "done", !.code = code]]
                           /\ resp' = Response("syncProducts", storeId, code, "")
       IN IF storeId = NoSuchStore THEN answer(404)
          ELSE IF storeId = IncompleteStore THEN answer(400)
          ELSE IF ~fetchOk THEN answer(500)
          ELSE IF list = << >> THEN answer(200)
          ELSE /\ syncRuns' = [syncRuns EXCEPT ![run] =
                                  [started EXCEPT !.pc = "loop", !.list = list, !.pos = 1,
                                                  !.total = Len(list)]]
               /\ UNCHANGED resp
    /\ UNCHANGED <<now, approves, authVars, notifyVars, confirms, clientVars, orders,
                   returnVars, courierVars, deliveryVars, webhookVars, listing, stores,
                   productMappings, products, medusaCatalog, syncStatus>>

\* one pass of the loop of POST /sync-products/:storeId; the response follows
\* the last pass
SyncProductsLoop(run, outcome) ==
    /\ InLoop(run, "route")
    /\ LET r == syncRuns[run]
           p == r.list[r.pos]
       IN /\ medusaCatalog' = IF outcome \in {"ok", "mappingFail"}
                              THEN RouteMedusaCatalog(r.store, p.handle)
                              ELSE medusaCatalog
          /\ productMappings' = IF outcome = "ok"
                                THEN saveProductMapping(productMappings, r.store, p.id,
                                                        RouteMedusaId(r.store, p.handle))
                                ELSE productMappings
          /\ syncRuns' = [syncRuns EXCEPT ![run] = AfterPass(run, outcome # "ok", TRUE)]
          /\ resp' = IF r.pos = Len(r.list)
                     THEN Response("syncProducts", r.store, 200, "")
                     ELSE resp
    /\ UNCHANGED <<now, approves, authVars, notifyVars, confirms, clientVars, orders,
                   returnVars, courierVars, deliveryVars, webhookVars, listing, stores,
                   products, syncStatus, requests>>

\* syncShopifyStore up to its fetch: the upsert of status syncing
syncShopifyStore(run, shop) ==
    /\ Started
    /\ syncRuns[run].pc \in {"idle", "done"}
    /\ syncStatus' = [syncStatus EXCEPT ![shop] = "syncing"]
    /\ syncRuns' = [syncRuns EXCEPT ![run] =
                       [IdleRun EXCEPT !.impl = "lib", !.store = shop, !.pc = "fetch"]]
    /\ UNCHANGED <<now, approves, authVars, notifyVars, confirms, clientVars, orders,
                   returnVars, courierVars, deliveryVars, webhookVars, listing, stores,
                   productMappings, products, medusaCatalog, resp>>

\* a fetch whose failure is not recorded
FetchFailedStatusKept(status) == status

\* the status the catch of syncShopifyStore writes
FetchFailedStatus(status) == "failed"

\* syncShopifyStore from the fetch to the loop; with nothing fetched the loop
\* is empty and the status write and the result follow at once
syncShopifyStoreFetch(run, fetchOk, list) ==
    /\ syncRuns[run].pc = "fetch"
    /\ LET r == syncRuns[run]
       IN IF ~fetchOk
          THEN /\ syncStatus' = [syncStatus EXCEPT ![r.store] = FetchFailedStatus(@)]
               /\ syncRuns' = [syncRuns EXCEPT ![run] = [r EXCEPT !.pc = "done", !.code = 500]]
               /\ resp' = Response("syncShopifyStore", r.store, 500, "error")
          ELSE IF list = << >>
          THEN /\ syncStatus' = [syncStatus EXCEPT ![r.store] = "completed"]
               /\ syncRuns' = [syncRuns EXCEPT ![run] = [r EXCEPT !.pc = "done", !.code = 200]]
               /\ resp' = Response("syncShopifyStore", r.store, 200, "")
          ELSE /\ syncRuns' = [syncRuns EXCEPT ![run] =
                                  [r EXCEPT !.pc = "loop", !.list = list, !.pos = 1,
                                            !.total = Len(list)]]
               /\ UNCHANGED <<syncStatus, resp>>
    /\ UNCHANGED <<now, approves, authVars, notifyVars, confirms, clientVars, orders,
                   returnVars, courierVars, deliveryVars, webhookVars, listing, stores,
                   productMappings, products, medusaCatalog, requests>>

\* one pass of the loop of syncShopifyStore; the status write and the result
\* follow the last pass
syncShopifyStoreLoop(run, outcome) ==
    /\ InLoop(run, "lib")
    /\ LET r == syncRuns[run]
           p == r.list[r.pos]
       IN /\ medusaCatalog' = IF outcome \in {"ok", "mappingFail"}
                              THEN Append(medusaCatalog,
                                          [backend |-> SharedBackend, handle |-> p.handle])
                              ELSE medusaCatalog
          /\ products' = IF outcome = "ok"
                         THEN saveProductMapping(products, r.store, p.id,
                                                 Len(medusaCatalog) + 1)
                         ELSE products
          /\ syncRuns' = [syncRuns EXCEPT ![run] = AfterPass(run, outcome # "ok", FALSE)]
          /\ IF r.pos = Len(r.list)
             THEN /\ syncStatus' = [syncStatus EXCEPT ![r.store] = "completed"]
                  /\ resp' = Response("syncShopifyStore", r.store, 200, "")
             ELSE UNCHANGED <<syncStatus, resp>>
    /\ UNCHANGED <<now, approves, authVars, notifyVars, confirms, clientVars, orders,
                   returnVars, courierVars, deliveryVars, webhookVars, listing, stores,
                   productMappings, requests>>

\* POST /api/sync/:storeId of routes/stores.js: the store lookup, the write of
\* syncing, the timer set for the simulated sync, the answer; a lookup that
\* throws goes to the catch, which writes failed
TriggerSync(run, storeId, lookupOk) ==
    /\ Started
    /\ syncRuns[run].pc \in {"idle", "done"}
    /\ LET started == [IdleRun EXCEPT !.impl = "stores", !.store = storeId]
           answer(pc, code) ==
               /\ syncRuns' = [syncRuns EXCEPT ![run] =
                                  [started EXCEPT !.pc = pc, !.code = code]]
               /\ resp' = Response("triggerSync", storeId, code, "")
       IN IF ~lookupOk
          THEN /\ stores' = IF storeId \in StoreIds
                            THEN [stores EXCEPT ![storeId].syncStatus = "failed"]
                            ELSE stores
               /\ answer("done", 500)
          ELSE IF storeId \notin StoreIds
          THEN /\ UNCHANGED stores
               /\ answer("done", 404)
          ELSE /\ stores' = [stores EXCEPT ![storeId].syncStatus = "syncing"]
               /\ answer("timer", 200)
    /\ UNCHANGED <<now, approves, authVars, notifyVars, confirms, clientVars, orders,
                   returnVars, courierVars, deliveryVars, webhookVars, listing,
                   productMappings, products, medusaCatalog, syncStatus>>

\* the callback of the timer set by POST /api/sync/:storeId
SyncTimer(run) ==
    /\ syncRuns[run].pc = "timer"
    /\ stores' = [stores EXCEPT ![syncRuns[run].store].syncStatus = "completed"]
    /\ syncRuns' = [syncRuns EXCEPT ![run].pc = "done"]
    /\ UNCHANGED <<now, approves, authVars, notifyVars, confirms, clientVars, orders,
                   returnVars, courierVars, deliveryVars, webhookVars, listing,
                   productMappings, products, medusaCatalog, syncStatus, resp,
                   requests>>

\* no sync has run, nothing has been listed, no notification was attempted
InitSync ==
    /\ syncRuns = [r \in RunIds |-> IdleRun]
    /\ productMappings = << >>
    /\ products = << >>
    /\ medusaCatalog = << >>
    /\ syncStatus = [s \in StoreIds |-> ""]
    /\ stores = [s \in StoreIds |-> [syncStatus |-> "idle"]]
    /\ listing = NoListing
    /\ notice = "none"
    /\ stripeRefunds = << >>

-----------------------------------------------------------------------------
(* OAuth callback of routes/auth.js, cut at each of its database calls *)

CallbackSlots == {1, 2}

IdleCallback == [pc |-> "idle", store |-> NULL, session |-> NULL]

InitAuth ==
    /\ tokens = << >>
    /\ callbacks = [c \in CallbackSlots |-> IdleCallback]

\* the rows of a store that are marked active, in a token table
ActiveTokens(rows, storeId) ==
    {t \in 1 .. Len(rows) : rows[t].storeId = storeId /\ rows[t].isActive}

\* prisma.token.updateMany({where: {storeId, isActive: true}, data: {isActive: false}})
Deactivated(storeId) ==
    [t \in 1 .. Len(tokens) |->
        IF tokens[t].storeId = storeId /\ tokens[t].isActive
        THEN [tokens[t] EXCEPT !.isActive = FALSE]
        ELSE tokens[t]]

\* the row of prisma.token.create; the session's access token is numbered by
\* the request that carried it
NewToken(storeId, session) ==
    [storeId |-> storeId, accessToken |-> session, isActive |-> TRUE]

\* GET /auth/callback up to the store row: validateAuthCallback and store.upsert
CallbackBegin(slot, shop, ok) ==
    /\ Handled
    /\ callbacks[slot].pc = "idle"
    /\ IF ok
       THEN /\ callbacks' = [callbacks EXCEPT ![slot] =
                                [pc |-> "deactivate", store |-> shop,
                                 session |-> requests + 1]]
            /\ UNCHANGED resp
       ELSE /\ resp' = Response("callback", shop, 500, "error")
            /\ UNCHANGED callbacks
    /\ UNCHANGED <<now, approves, tokens, notifyVars, confirms, clientVars, listing,
                   syncVars, orders, returnVars, courierVars, deliveryVars,
                   webhookVars>>

\* GET /auth/callback: the token.updateMany call
CallbackDeactivate(slot, ok) ==
    /\ callbacks[slot].pc = "deactivate"
    /\ IF ok
       THEN /\ tokens' = Deactivated(callbacks[slot].store)
            /\ callbacks' = [callbacks EXCEPT ![slot].pc = "create"]
            /\ UNCHANGED resp
       ELSE /\ resp' = Response("callback", callbacks[slot].store, 500, "error")
            /\ callbacks' = [callbacks EXCEPT ![slot] = IdleCallback]
            /\ UNCHANGED tokens
    /\ UNCHANGED <<now, approves, notifyVars, confirms, clientVars, listing, syncVars,
                   orders, returnVars, courierVars, deliveryVars, webhookVars,
                   requests>>

\* GET /auth/callback: the token.create call and the answer
CallbackCreate(slot, ok) ==
    /\ callbacks[slot].pc = "create"
    /\ callbacks' = [callbacks EXCEPT ![slot] = IdleCallback]
    /\ IF ok
       THEN /\ tokens' = Append(tokens, NewToken(callbacks[slot].store,
                                                  callbacks[slot].session))
            /\ resp' = Response("callback", callbacks[slot].store, 200, "")
       ELSE /\ resp' = Response("callback", callbacks[slot].store, 500, "error")
            /\ UNCHANGED tokens
    /\ UNCHANGED <<now, approves, notifyVars, confirms, clientVars, listing, syncVars,
                   orders, returnVars, courierVars, deliveryVars, webhookVars,
                   requests>>

-----------------------------------------------------------------------------
(* The return lifecycle *)

\* the ids of the stored returns, and one that names no row
ReturnIdInputs == 1 .. (Len(returns) + 1)
AmountInputs == {NULL, 0, 3000}

\* A return found in the store at start-up: approved earlier, its pickup
\* scheduled as courier job 1.
SeedReturn ==
    [orderId |-> 1, customerId |-> 1, status |-> "PICKUP_SCHEDULED",
     returnAmount |-> 5000, stuartJobId |-> providerJobId(1), pickupDate |-> NULL,
     stripeRefundId |-> NULL, stuartPickupJobId |-> NULL, deliveredAt |-> NULL]

Init ==
    /\ now = Now0
    /\ orders = InitOrders
    /\ \/ /\ returns = << >>
          /\ providerJobs = 0
          /\ stuartJobs = << >>
       \/ /\ returns = <<SeedReturn>>
          /\ providerJobs = 1
          /\ stuartJobs = <<StuartJobRow(1, "RETURN_PICKUP")>>
    /\ refunds = << >>
    /\ stripeCalls = 0
    /\ merchantNotifications = 0
    /\ quotes = << >>
    /\ deliveries = << >>
    /\ completions = [o \in OrderIds |-> 0]
    /\ webhookLog = << >>
    /\ medusaProducts = {}
    /\ resp = Response("none", NULL, 0, "")
    /\ requests = 0
    /\ InitSync
    /\ InitClient
    /\ InitNotify
    /\ confirms = [c \in ConfirmSlots |-> IdleConfirm]
    /\ InitApproves
    /\ InitAuth

Next ==
    \/ \E o \in OrderIds \cup {NULL, NoSuchOrder}, m \in BOOLEAN, n \in BOOLEAN :
          Initiate(o, m, n)
    \/ \E id \in ReturnIdInputs, a \in AmountInputs, c \in JobOutcomes, n \in BOOLEAN :
          Approve(id, a, c, n)
    \/ \E id \in ReturnIdInputs, n \in BOOLEAN : Reject(id, n)
    \/ \E id \in ReturnIdInputs, s \in BOOLEAN, n \in BOOLEAN : ProcessRefund(id, s, n)
    \/ \E id \in ReturnIdInputs, st \in RETURN_STATUS \cup {BadStatus} :
          UpdateReturnStatus(id, st)

Spec == Init /\ [][Next]_vars

\* The return window: initiate requests arriving as the clock advances.
NextWindow ==
    \/ \E o \in OrderIds \cup {NULL, NoSuchOrder}, m \in BOOLEAN, n \in BOOLEAN :
          Initiate(o, m, n)
    \/ Tick

SpecWindow == Init /\ [][NextWindow]_vars

-----------------------------------------------------------------------------
(* The delivery lifecycle *)

QuoteIdInputs == (1 .. (Len(quotes) + 1)) \cup {NULL}
DeliveryIdInputs == 1 .. (Len(deliveries) + 1)

\* Rows found in the store at start-up: an ACTIVE quote for order 1 that runs
\* out one second after the start of the clock, and a Delivery of order 2
\* confirmed earlier as courier job 1.
SeedQuote == [orderId |-> 1, price |-> 700, expiresAt |-> Now0 + 1, status |-> "ACTIVE"]

SeedDelivery ==
    [orderId |-> 2, stuartJobId |-> providerJobId(1), status |-> "CONFIRMED",
     price |-> 700, estimatedDeliveryTime |-> NULL, quoteId |-> NULL,
     cancellationReason |-> ""]

InitDelivery ==
    /\ now = Now0
    /\ returns = << >>
    /\ refunds = << >>
    /\ stripeCalls = 0
    /\ merchantNotifications = 0
    /\ \/ /\ orders = InitOrders
          /\ quotes = << >>
          /\ deliveries = << >>
          /\ providerJobs = 0
          /\ stuartJobs = << >>
       \/ /\ orders = [InitOrders EXCEPT ![2].status = "DELIVERY_CONFIRMED",
                                         ![2].deliveryId = 1]
          /\ quotes = <<SeedQuote>>
          /\ deliveries = <<SeedDelivery>>
          /\ providerJobs = 1
          /\ stuartJobs = <<StuartJobRow(1, "DELIVERY")>>
    /\ completions = [o \in OrderIds |-> 0]
    /\ webhookLog = << >>
    /\ medusaProducts = {}
    /\ resp = Response("none", NULL, 0, "")
    /\ requests = 0
    /\ InitSync
    /\ InitClient
    /\ InitNotify
    /\ confirms = [c \in ConfirmSlots |-> IdleConfirm]
    /\ InitApproves
    /\ InitAuth

NextDelivery ==
    \/ \E o \in OrderIds \cup {NULL}, a \in BOOLEAN, c \in BOOLEAN : GetQuote(o, a, c)
    \/ \E o \in OrderIds \cup {NoSuchOrder}, q \in QuoteIdInputs, c \in JobOutcomes :
          Confirm(o, q, c)
    \/ \E d \in DeliveryIdInputs, st \in DELIVERY_STATUS \cup {BadStatus, ""} :
          UpdateDeliveryStatus(d, st)
    \/ \E d \in DeliveryIdInputs, c \in BOOLEAN : CancelDelivery(d, c)
    \/ \E o \in OrderIds, g \in ProviderStatuses \cup {"fail"} : GetStatus(o, g)
    \/ Tick

SpecDelivery == InitDelivery /\ [][NextDelivery]_vars

-----------------------------------------------------------------------------
(* The webhook receivers *)

ProductIds == {1, 2}

\* provider job ids a courier event can name: those created so far and one more
JobIdInputs == {providerJobId(k) : k \in 1 .. (providerJobs + 1)}

\* Rows found in the store at start-up: courier job 1 saved as local row 1,
\* order 1 shipped with it, and a return whose pickup is that job.
InitWebhook ==
    /\ now = Now0
    /\ refunds = << >>
    /\ stripeCalls = 0
    /\ merchantNotifications = 0
    /\ \/ /\ orders = InitOrders
          /\ returns = << >>
          /\ providerJobs = 0
          /\ stuartJobs = << >>
       \/ /\ orders = [InitOrders EXCEPT ![1].stuartJobId = 1]
          /\ returns = <<[SeedReturn EXCEPT !.orderId = 2, !.customerId = 2,
                                            !.returnAmount = 1200,
                                            !.stuartPickupJobId = 1]>>
          /\ providerJobs = 1
          /\ stuartJobs = <<StuartJobRow(1, "DELIVERY")>>
    /\ quotes = << >>
    /\ deliveries = << >>
    /\ completions = [o \in OrderIds |-> 0]
    /\ webhookLog = << >>
    /\ medusaProducts = {}
    /\ resp = Response("none", NULL, 0, "")
    /\ requests = 0
    /\ InitSync
    /\ InitClient
    /\ InitNotify
    /\ confirms = [c \in ConfirmSlots |-> IdleConfirm]
    /\ InitApproves
    /\ InitAuth

NextWebhook ==
    \/ \E j \in JobIdInputs, st \in ProviderStatuses, e \in {"delivered", "update"},
          d \in BOOLEAN, l \in BOOLEAN : handleStuartWebhook(j, st, e, d, l)
    \/ \E b \in BOOLEAN, l \in BOOLEAN : handleShopifyProductCreate(b, l)
    \/ \E b \in BOOLEAN, l \in BOOLEAN : handleShopifyProductUpdate(b, l)
    \/ \E b \in BOOLEAN, l \in BOOLEAN : handleShopifyInventoryUpdate(b, l)
    \/ \E b \in BOOLEAN, l \in BOOLEAN : handleShopifyOrderCreate(b, l)
    \/ \E c \in BOOLEAN, l \in BOOLEAN : handleMedusaOrderCreated(c, l)
    \/ \E l \in BOOLEAN : handleMedusaOrderCompleted(l)
    \/ \E t \in ShopifyTopics, p \in ProductIds, m \in BOOLEAN : ShopifyRouter(t, p, m)

SpecWebhook == InitWebhook /\ [][NextWebhook]_vars

-----------------------------------------------------------------------------
(* Status updates and list reads over both tables *)

\* status values a request can carry: values of the return set only, of the
\* delivery set only, of both, a value of neither, and "" for none
StatusInputs ==
    {"INITIATED", "RECEIVED", "REFUNDED", "IN_TRANSIT", "CONFIRMED", "DELIVERED",
     "CANCELLED", BadStatus, ""}

\* limit and offset values of the list reads next to the status updates
PageInputs == {"", "abc"}

\* Rows found in the store at start-up: the return and the delivery of the
\* seeds above, each with its own courier job.
InitStatus ==
    /\ now = Now0
    /\ refunds = << >>
    /\ stripeCalls = 0
    /\ merchantNotifications = 0
    /\ \/ /\ orders = InitOrders
          /\ returns = << >>
          /\ deliveries = << >>
          /\ providerJobs = 0
          /\ stuartJobs = << >>
       \/ /\ orders = [InitOrders EXCEPT ![2].status = "DELIVERY_CONFIRMED",
                                         ![2].deliveryId = 1]
          /\ returns = <<SeedReturn>>
          /\ deliveries = <<[SeedDelivery EXCEPT !.stuartJobId = providerJobId(2)]>>
          /\ providerJobs = 2
          /\ stuartJobs = <<StuartJobRow(1, "RETURN_PICKUP"), StuartJobRow(2, "DELIVERY")>>
    /\ quotes = << >>
    /\ completions = [o \in OrderIds |-> 0]
    /\ webhookLog = << >>
    /\ medusaProducts = {}
    /\ resp = Response("none", NULL, 0, "")
    /\ requests = 0
    /\ InitSync
    /\ InitClient
    /\ InitNotify
    /\ confirms = [c \in ConfirmSlots |-> IdleConfirm]
    /\ InitApproves
    /\ InitAuth

NextStatus ==
    \/ \E id \in ReturnIdInputs, st \in StatusInputs : UpdateReturnStatus(id, st)
    \/ \E d \in DeliveryIdInputs, st \in StatusInputs : UpdateDeliveryStatus(d, st)
    \/ \E st \in StatusInputs, l \in PageInputs, o \in PageInputs :
          ListReturnsByStatus(st, l, o)
    \/ \E st \in StatusInputs, l \in PageInputs, o \in PageInputs :
          ListDeliveriesByStatus(st, l, o)

SpecStatus == InitStatus /\ [][NextStatus]_vars

\* A store with more rows of one status than a page holds: one return
\* INITIATED and MaxPageSize + 1 RECEIVED, MaxPageSize + 1 deliveries IN_TRANSIT
\* and one CONFIRMED.
ManyReturns ==
    [i \in 1 .. (MaxPageSize + 2) |->
        [SeedReturn EXCEPT !.status = IF i = 1 THEN "INITIATED" ELSE "RECEIVED"]]

ManyDeliveries ==
    [i \in 1 .. (MaxPageSize + 2) |->
        [SeedDelivery EXCEPT !.status = IF i = 1 THEN "CONFIRMED" ELSE "IN_TRANSIT"]]

InitList ==
    /\ now = Now0
    /\ refunds = << >>
    /\ stripeCalls = 0
    /\ merchantNotifications = 0
    /\ orders = [InitOrders EXCEPT ![2].status = "DELIVERY_CONFIRMED",
                                   ![2].deliveryId = 1]
    /\ \/ /\ returns = <<SeedReturn>>
          /\ deliveries = <<SeedDelivery>>
       \/ /\ returns = ManyReturns
          /\ deliveries = ManyDeliveries
    /\ providerJobs = 1
    /\ stuartJobs = <<StuartJobRow(1, "DELIVERY")>>
    /\ quotes = << >>
    /\ completions = [o \in OrderIds |-> 0]
    /\ webhookLog = << >>
    /\ medusaProducts = {}
    /\ resp = Response("none", NULL, 0, "")
    /\ requests = 0
    /\ InitSync
    /\ InitClient
    /\ InitNotify
    /\ confirms = [c \in ConfirmSlots |-> IdleConfirm]
    /\ InitApproves
    /\ InitAuth

\* statuses asked for in the list reads
ListStatusInputs == {"INITIATED", "RECEIVED", "IN_TRANSIT", BadStatus}

NextList ==
    \/ \E st \in ListStatusInputs, l \in LimitInputs, o \in OffsetInputs :
          ListReturnsByStatus(st, l, o)
    \/ \E st \in ListStatusInputs, l \in LimitInputs, o \in OffsetInputs :
          ListDeliveriesByStatus(st, l, o)

SpecList == InitList /\ [][NextList]_vars

-----------------------------------------------------------------------------
(* Product synchronisation runs *)

InitProducts ==
    /\ now = Now0
    /\ orders = InitOrders
    /\ returns = << >>
    /\ refunds = << >>
    /\ stripeCalls = 0
    /\ merchantNotifications = 0
    /\ providerJobs = 0
    /\ stuartJobs = << >>
    /\ quotes = << >>
    /\ deliveries = << >>
    /\ completions = [o \in OrderIds |-> 0]
    /\ webhookLog = << >>
    /\ medusaProducts = {}
    /\ resp = Response("none", NULL, 0, "")
    /\ requests = 0
    /\ InitSync
    /\ InitClient
    /\ InitNotify
    /\ confirms = [c \in ConfirmSlots |-> IdleConfirm]
    /\ InitApproves
    /\ InitAuth

NextSync ==
    \/ \E run \in RunIds, st \in StoreIds \cup {IncompleteStore, NoSuchStore},
          f \in BOOLEAN, l \in CatalogLists : SyncProducts(run, st, f, l)
    \/ \E run \in RunIds, c \in ProductOutcomes : SyncProductsLoop(run, c)
    \/ \E run \in RunIds, st \in StoreIds : syncShopifyStore(run, st)
    \/ \E run \in RunIds, f \in BOOLEAN, l \in CatalogLists :
          syncShopifyStoreFetch(run, f, l)
    \/ \E run \in RunIds, c \in ProductOutcomes : syncShopifyStoreLoop(run, c)

SpecSync == InitProducts /\ [][NextSync]_vars

-----------------------------------------------------------------------------
(* The recorded sync status: syncShopifyStore and the sync trigger of
   routes/stores.js, their invocations interleaving *)

NextSyncStatus ==
    \/ \E run \in RunIds, st \in StoreIds : syncShopifyStore(run, st)
    \/ \E run \in RunIds, f \in BOOLEAN, l \in CatalogLists :
          syncShopifyStoreFetch(run, f, l)
    \/ \E run \in RunIds, c \in ProductOutcomes : syncShopifyStoreLoop(run, c)
    \/ \E run \in RunIds, st \in StoreIds \cup {NoSuchStore}, f \in BOOLEAN :
          TriggerSync(run, st, f)
    \/ \E run \in RunIds : SyncTimer(run)

SpecSyncStatus == InitProducts /\ [][NextSyncStatus]_vars

-----------------------------------------------------------------------------
(* Repeated syncs of one store, one run after another, over a source
   catalog that does not change *)

SourceCatalog == <<Product(1, "shirt"), Product(2, "cap")>>

\* no invocation is in progress
NoRunInProgress == \A run \in RunIds : syncRuns[run].pc \in {"idle", "done"}

NextSyncRepeat ==
    \/ \E run \in RunIds, f \in BOOLEAN :
          NoRunInProgress /\ SyncProducts(run, 1, f, SourceCatalog)
    \/ \E run \in RunIds, c \in ProductOutcomes : SyncProductsLoop(run, c)
    \/ \E run \in RunIds : NoRunInProgress /\ syncShopifyStore(run, 1)
    \/ \E run \in RunIds, f \in BOOLEAN : syncShopifyStoreFetch(run, f, SourceCatalog)
    \/ \E run \in RunIds, c \in ProductOutcomes : syncShopifyStoreLoop(run, c)

SpecSyncRepeat == InitProducts /\ [][NextSyncRepeat]_vars

-----------------------------------------------------------------------------
(* Refunds: process-refund and status updates on a return that has arrived *)

\* A return found in the store at start-up: back at the merchant, not refunded
ReceivedReturn == [SeedReturn EXCEPT !.status = "RECEIVED"]

InitRefund ==
    /\ now = Now0
    /\ orders = InitOrders
    /\ returns = <<ReceivedReturn>>
    /\ providerJobs = 1
    /\ stuartJobs = <<StuartJobRow(1, "RETURN_PICKUP")>>
    /\ refunds = << >>
    /\ stripeCalls = 0
    /\ merchantNotifications = 0
    /\ quotes = << >>
    /\ deliveries = << >>
    /\ completions = [o \in OrderIds |-> 0]
    /\ webhookLog = << >>
    /\ medusaProducts = {}
    /\ resp = Response("none", NULL, 0, "")
    /\ requests = 0
    /\ InitSync
    /\ InitClient
    /\ InitNotify
    /\ confirms = [c \in ConfirmSlots |-> IdleConfirm]
    /\ InitApproves
    /\ InitAuth

NextRefund ==
    \/ \E id \in ReturnIdInputs, s \in BOOLEAN, n \in BOOLEAN : ProcessRefund(id, s, n)
    \/ \E id \in ReturnIdInputs, st \in RETURN_STATUS \cup {BadStatus} :
          UpdateReturnStatus(id, st)

SpecRefund == InitRefund /\ [][NextRefund]_vars

-----------------------------------------------------------------------------
(* Confirm requests arriving while others are under way *)

NextConfirmRace ==
    \/ \E c \in ConfirmSlots, o \in OrderIds \cup {NoSuchOrder}, q \in QuoteIdInputs :
          ConfirmRead(c, o, q)
    \/ \E c \in ConfirmSlots, out \in JobOutcomes : ConfirmWrite(c, out)

SpecConfirmRace == InitDelivery /\ [][NextConfirmRace]_vars

-----------------------------------------------------------------------------
(* The notification senders on their own *)

NextNotify ==
    \/ \E t \in BOOLEAN, p \in BOOLEAN, l \in BOOLEAN, f \in BOOLEAN : sendEmail(t, p, l, f)
    \/ \E t \in BOOLEAN, p \in BOOLEAN, l \in BOOLEAN, f \in BOOLEAN : sendSMS(t, p, l, f)

SpecNotify == InitProducts /\ [][NextNotify]_vars

-----------------------------------------------------------------------------
(* The courier client on its own: its methods called as the clock advances *)

InitCourier == InitProducts

NextCourier ==
    \/ \E a \in BOOLEAN, e \in ExpiresIn, r \in BOOLEAN : getDeliveryQuote(a, e, r)
    \/ \E a \in BOOLEAN, e \in ExpiresIn, c \in JobOutcomes : createDeliveryJob(a, e, c)
    \/ \E a \in BOOLEAN, e \in ExpiresIn, c \in JobOutcomes : createReturnPickupJob(a, e, c)
    \/ \E a \in BOOLEAN, e \in ExpiresIn, r \in BOOLEAN : getJobStatus(a, e, r)
    \/ \E a \in BOOLEAN, e \in ExpiresIn, r \in BOOLEAN : cancelJob(a, e, r)
    \/ Tick

SpecCourier == InitCourier /\ [][NextCourier]_vars

-----------------------------------------------------------------------------
(* Properties of the return lifecycle *)

\* C1: processRefund on an existing Return calls the payments gateway and
\* changes the Return only when the stored status is RECEIVED; from every other
\* status it answers 400 (InvalidState), sends no gateway request and leaves
\* the Return rows and the refund records as they were.
C1_RefundOnlyWhenReceived ==
    [][resp'.op = "processRefund" =>
       \A id \in ReturnIdInputs, ok \in BOOLEAN, n \in BOOLEAN :
          (ProcessRefund(id, ok, n) /\ ReturnExists(id)) =>
             /\ (stripeCalls' # stripeCalls \/ returns' # returns \/ refunds' # refunds)
                    => returns[id].status = "RECEIVED"
             /\ returns'[id].status = "REFUNDED" /\ resp'.code = 200
                    => returns[id].status = "RECEIVED" /\ stripeCalls' = stripeCalls + 1
             /\ returns[id].status # "RECEIVED"
                    => /\ resp'.code = 400
                       /\ UNCHANGED <<returns, refunds, stripeCalls>>]_vars

\* a refund request was turned away from an APPROVED return, nothing was sent
C1_Witness ==
    /\ resp.op = "processRefund" /\ resp.code = 400
    /\ ReturnExists(resp.id) /\ returns[resp.id].status = "APPROVED"
    /\ stripeCalls = 0 /\ refunds = << >>

\* the forward order of the return states
ReturnChain ==
    <<"INITIATED", "PENDING_APPROVAL", "APPROVED", "PICKUP_SCHEDULED", "PICKED_UP",
      "IN_TRANSIT", "RECEIVED", "REFUNDED">>

ChainPos(s) == CHOOSE i \in 1 .. Len(ReturnChain) : ReturnChain[i] = s

ForwardMove(old, new) ==
    \/ /\ old # "REJECTED" /\ new # "REJECTED"
       /\ ChainPos(old) < ChainPos(new)
    \/ /\ new = "REJECTED"
       /\ old \in {"INITIATED", "PENDING_APPROVAL"}

\* C2: every change of a Return's stored status moves it forward along the
\* chain INITIATED .. REFUNDED or to REJECTED from a pre-approval state, and a
\* REFUNDED or REJECTED Return never changes status again.
C2_StatusOnlyAdvances ==
    [][\A id \in 1 .. Len(returns) :
          returns'[id].status # returns[id].status
              => ForwardMove(returns[id].status, returns'[id].status)]_vars

C7_ApproveStoresJobId ==
    [][\A id \in ReturnIdInputs, a \in AmountInputs, n \in BOOLEAN :
          (Approve(id, a, "ok", n) /\ ReturnExists(id)) =>
             /\ returns'[id].status = "PICKUP_SCHEDULED"
             /\ returns'[id].stuartJobId = providerJobId(providerJobs')]_vars

\* C9: initiate on an existing order answers Expired exactly when more than
\* 30 days (to the second) have passed since the order was created, and
\* otherwise creates a Return in state INITIATED.
C9_WindowIsThirtyDays ==
    [][\A o \in OrderIds, m \in BOOLEAN, n \in BOOLEAN :
          Initiate(o, m, n) =>
             IF now - orders[o].createdAt > ReturnWindowDays * SecondsPerDay
             THEN /\ resp'.code = 400
                  /\ resp'.err = "Return window expired (30 days)"
                  /\ UNCHANGED returns
             ELSE /\ Len(returns') = Len(returns) + 1
                  /\ returns'[Len(returns')].status = "INITIATED"]_vars

-----------------------------------------------------------------------------
(* Properties of the delivery lifecycle *)

TerminalDelivery == {"DELIVERED", "DELIVERY_FAILED", "CANCELLED"}

\* C3: once a Delivery is DELIVERED, DELIVERY_FAILED or CANCELLED, no later
\* updateStatus, cancel or getStatus call changes its status.
C3_TerminalDeliveryIsFinal ==
    [][\A d \in 1 .. Len(deliveries) :
          deliveries[d].status \in TerminalDelivery
              => deliveries'[d].status = deliveries[d].status]_vars

\* C4: the completion write on the parent Order (and the stamp on the linked
\* Return) runs only in a step in which a Delivery or courier job enters its
\* terminal state, so at most once per entry, also when the same update or
\* courier event arrives again.
C4_CompletionOncePerEntry ==
    [][\A o \in OrderIds :
          completions'[o] > completions[o]
              => \/ \E d \in 1 .. Len(deliveries) :
                       /\ deliveries[d].orderId = o
                       /\ deliveries[d].status # "DELIVERED"
                       /\ deliveries'[d].status = "DELIVERED"
                 \/ /\ orders[o].stuartJobId \in 1 .. Len(stuartJobs)
                    /\ orders[o].deliveryStatus # "DELIVERED"]_vars

\* C5: confirm with a quote whose expiry time is earlier than the current time
\* fails with 400 (InvalidState), creates no courier job and no Delivery and
\* leaves the quote and the Order unchanged.
C5_ExpiredQuoteRejected ==
    [][\A o \in OrderIds, q \in 1 .. Len(quotes), c \in JobOutcomes :
          (/\ Confirm(o, q, c)
           /\ quotes[q].expiresAt # NULL
           /\ quotes[q].expiresAt < now)
              => /\ resp'.code = 400
                 /\ UNCHANGED <<quotes, deliveries, orders, courierVars>>]_vars

\* C8: getStatus for an order whose latest Delivery has a courier job
\* reference answers 200 with the persisted status when the courier gateway
\* call fails, and changes no stored row.
C8_StatusFallsBackOnGatewayFailure ==
    [][\A o \in OrderIds :
          (/\ GetStatus(o, "fail")
           /\ DeliveriesOf(o) # {}
           /\ Truthy(deliveries[LatestDelivery(o)].stuartJobId))
              => /\ resp'.code = 200
                 /\ UNCHANGED <<deliveries, orders, quotes>>]_vars

-----------------------------------------------------------------------------
(* Properties of the webhook receivers *)

WebhookOps ==
    {"product/create", "product/update", "inventory_levels/update", "orders/create",
     "stuartWebhook", "order.created", "order.completed", "shopifyRouter"}

\* C10: every webhook receiver answers every inbound event with a success
\* acknowledgement, also when its processing or logging fails.
C10_WebhooksAlwaysAcknowledge ==
    resp.op \in WebhookOps => resp.code = 200

\* C11: a courier event "delivered" that names a job with no local record is
\* answered with a success acknowledgement and changes no courier-job, Order,
\* Return or Delivery row.
C11_UnknownJobAcknowledged ==
    [][\A j \in JobIdInputs, st \in ProviderStatuses, l \in BOOLEAN :
          (/\ handleStuartWebhook(j, st, "delivered", TRUE, l)
           /\ \A k \in 1 .. Len(stuartJobs) : stuartJobs[k].stuartJobId # j)
              => /\ resp'.code = 200
                 /\ UNCHANGED <<stuartJobs, orders, returns, deliveries>>]_vars

-----------------------------------------------------------------------------
(* Properties of the notification side channel and of the refund *)

\* C12: for initiate, approve, reject and processRefund, the step taken with
\* one outcome of the customer notification is, in the response and in every
\* stored row, also the step of the same request with the other outcome.
\* The request is the one the response names (its operation and its id).
C12_NotificationOutcomeInvisible ==
    [][LET \* the outcomes the handler's log line of this step allows
           outcomes == IF notice' = "sent" THEN {TRUE}
                       ELSE IF notice' = "failed" THEN {FALSE}
                       ELSE BOOLEAN
           \* a request for no return is answered before its amount or the
           \* courier is used: one amount and one courier outcome stand for all
           amounts == IF ~ReturnExists(resp'.id) THEN {NULL} ELSE AmountInputs
           \* the courier outcomes the job counters of this step allow
           couriers == IF providerJobs' = providerJobs THEN {"requestFail"}
                       ELSE IF stuartJobs' = stuartJobs THEN {"saveFail"}
                       ELSE {"ok"}
       IN /\ resp'.op = "initiate" =>
                \A m \in BOOLEAN, n \in outcomes :
                   Initiate(resp'.id, m, n) => InitiateSteps(resp'.id, m, ~n)
          /\ resp'.op = "approve" =>
                \A a \in amounts, c \in couriers, n \in outcomes :
                   Approve(resp'.id, a, c, n) => ApproveSteps(resp'.id, a, c, ~n)
          /\ resp'.op = "reject" =>
                \A n \in outcomes :
                   Reject(resp'.id, n) => RejectSteps(resp'.id, ~n)
          /\ resp'.op = "processRefund" =>
                \A s \in BOOLEAN, n \in outcomes :
                   ProcessRefund(resp'.id, s, n) => ProcessRefundSteps(resp'.id, s, ~n)]_vars

\* a refund went through although its customer notification failed
C12_Witness ==
    /\ resp.op = "processRefund" /\ resp.code = 200
    /\ notice = "failed"
    /\ ReturnExists(resp.id) /\ returns[resp.id].status = "REFUNDED"
    /\ Len(refunds) = 1

-----------------------------------------------------------------------------
(* Properties of confirm *)

\* C15: confirm with a quote id that names no quote or names a quote that is
\* not ACTIVE answers 400 (InvalidState); confirm with a usable quote for a
\* missing order answers 404 (NotFound); either way no courier job and no
\* Delivery is created and the quotes and Orders stay as they were.
C15_ConfirmRejectsBadQuoteOrOrder ==
    [][\A o \in OrderIds \cup {NoSuchOrder}, q \in 1 .. (Len(quotes) + 1), c \in JobOutcomes :
          Confirm(o, q, c) =>
             LET noQuote == q \notin 1 .. Len(quotes)
                 notActive == ~noQuote /\ quotes[q].status # "ACTIVE"
             IN /\ (noQuote \/ notActive)
                      => /\ resp'.code = 400
                         /\ UNCHANGED <<quotes, deliveries, orders, courierVars>>
                /\ (~noQuote /\ ~notActive /\ o \notin OrderIds)
                      => /\ resp'.code = 404
                         /\ UNCHANGED <<quotes, deliveries, orders, courierVars>>]_vars

\* a second confirm with a quote already accepted was turned away
C15_Witness ==
    /\ resp.op = "confirm" /\ resp.code = 400
    /\ resp.err = "Quote not found or expired"
    /\ Len(quotes) = 1 /\ quotes[1].status = "ACCEPTED"
    /\ Len(deliveries) = 2
    /\ providerJobs = 2

\* C16: after a confirm that answers success, exactly one Delivery was added,
\* in state CONFIRMED and naming the quote and the order; the quote is
\* ACCEPTED; the Order is DELIVERY_CONFIRMED and its delivery reference is the
\* new Delivery.
C16_ConfirmPersistsDelivery ==
    [][\A o \in OrderIds \cup {NoSuchOrder}, q \in 1 .. (Len(quotes) + 1), c \in JobOutcomes :
          (Confirm(o, q, c) /\ resp'.code = 200) =>
             /\ Len(deliveries') = Len(deliveries) + 1
             /\ SubSeq(deliveries', 1, Len(deliveries)) = deliveries
             /\ deliveries'[Len(deliveries')].status = "CONFIRMED"
             /\ deliveries'[Len(deliveries')].quoteId = q
             /\ deliveries'[Len(deliveries')].orderId = o
             /\ quotes'[q].status = "ACCEPTED"
             /\ orders'[o].status = "DELIVERY_CONFIRMED"
             /\ orders'[o].deliveryId = Len(deliveries')]_vars

\* order 1 was confirmed with quote 1
C16_Witness ==
    /\ resp.op = "confirm" /\ resp.code = 200 /\ resp.id = 1
    /\ Len(deliveries) = 2
    /\ deliveries[2].quoteId = 1 /\ deliveries[2].orderId = 1
    /\ deliveries[2].status = "CONFIRMED"
    /\ quotes[1].status = "ACCEPTED"
    /\ orders[1].status = "DELIVERY_CONFIRMED" /\ orders[1].deliveryId = 2

\* C17: after a confirm that answers success, the courier job reference of
\* the new Delivery is the provider's id of the job created in that call.
C17_ConfirmStoresJobId ==
    [][\A o \in OrderIds, q \in 1 .. Len(quotes), c \in JobOutcomes :
          (Confirm(o, q, c) /\ resp'.code = 200) =>
             /\ providerJobs' = providerJobs + 1
             /\ deliveries'[Len(deliveries')].stuartJobId = providerJobId(providerJobs')]_vars

-----------------------------------------------------------------------------
(* Properties of the status values and of the list reads *)

\* C13: a status value outside the entity's status set makes the return
\* status update, the delivery status update and both list reads answer 400
\* (InvalidArgument) and change no row; a value inside the set never gets 400.
C13_UnknownStatusIsInvalidArgument ==
    [][/\ \A id \in ReturnIdInputs, st \in StatusInputs :
             UpdateReturnStatus(id, st) =>
                IF st \in {"INITIATED", "PENDING_APPROVAL", "APPROVED", "REJECTED",
                           "PICKUP_SCHEDULED", "PICKED_UP", "IN_TRANSIT", "RECEIVED",
                           "REFUNDED"}
                THEN resp'.code # 400
                ELSE resp'.code = 400 /\ UNCHANGED <<returns, deliveries, orders>>
       /\ \A d \in DeliveryIdInputs, st \in StatusInputs :
             UpdateDeliveryStatus(d, st) =>
                IF st \in {"QUOTE_REQUESTED", "QUOTE_PROVIDED", "CONFIRMED", "PICKING_UP",
                           "IN_TRANSIT", "ARRIVING", "DELIVERED", "DELIVERY_FAILED",
                           "CANCELLED"}
                THEN resp'.code # 400
                ELSE resp'.code = 400 /\ UNCHANGED <<returns, deliveries, orders>>
       /\ \A st \in StatusInputs, l \in PageInputs, o \in PageInputs :
             ListReturnsByStatus(st, l, o) =>
                IF st \in {"INITIATED", "PENDING_APPROVAL", "APPROVED", "REJECTED",
                           "PICKUP_SCHEDULED", "PICKED_UP", "IN_TRANSIT", "RECEIVED",
                           "REFUNDED"}
                THEN resp'.code # 400
                ELSE resp'.code = 400 /\ UNCHANGED <<returns, deliveries, orders>>
       /\ \A st \in StatusInputs, l \in PageInputs, o \in PageInputs :
             ListDeliveriesByStatus(st, l, o) =>
                IF st \in {"QUOTE_REQUESTED", "QUOTE_PROVIDED", "CONFIRMED", "PICKING_UP",
                           "IN_TRANSIT", "ARRIVING", "DELIVERED", "DELIVERY_FAILED",
                           "CANCELLED"}
                THEN resp'.code # 400
                ELSE resp'.code = 400 /\ UNCHANGED <<returns, deliveries, orders>>]_vars

\* a list read of deliveries with a return-only status was turned away and
\* the stored rows are the ones of the start
C13_Witness ==
    /\ resp.op = "listDeliveries" /\ resp.code = 400
    /\ resp.err = "Invalid status"
    /\ returns = <<SeedReturn>>
    /\ Len(deliveries) = 1 /\ deliveries[1].status = "CONFIRMED"

\* C20: a successful list read answers at most min(limit, 100) items (limit
\* 50 when none is given), each of the requested status, and its total is the
\* number of stored rows of that status whatever limit and offset are.
PageWithinLimit(rows, status, limit) ==
    LET asked == IF limit = "" THEN DefaultLimit ELSE parseInt(limit)
    IN /\ Len(listing'.items) <= asked
       /\ Len(listing'.items) <= MaxPageSize
       /\ \A k \in 1 .. Len(listing'.items) :
             /\ listing'.items[k] \in 1 .. Len(rows)
             /\ rows[listing'.items[k]].status = status
       /\ listing'.total = Cardinality({i \in 1 .. Len(rows) : rows[i].status = status})

-----------------------------------------------------------------------------
(* Properties of the product synchronisation *)

UniqueKeys(table) ==
    \A i, j \in 1 .. Len(table) :
        (/\ table[i].storeId = table[j].storeId
         /\ table[i].shopifyProductId = table[j].shopifyProductId) => i = j

\* the rows of a table outside a key are the same before and after the step
OtherKeysKept(before, after, storeId, shopifyProductId) ==
    \A i \in 1 .. Len(before) :
        (before[i].storeId # storeId \/ before[i].shopifyProductId # shopifyProductId)
            => (i \in 1 .. Len(after) /\ after[i] = before[i])

\* C14: in both mapping tables there is at most one row per (store, source
\* product id); a pass that saves a mapping leaves exactly the row of its pair
\* carrying the destination id that pass wrote and every other row as it was;
\* and only such a pass changes a mapping table.
C14_OneMappingPerKey ==
    [][/\ UniqueKeys(productMappings') /\ UniqueKeys(products')
       /\ \A run \in RunIds :
             SyncProductsLoop(run, "ok") =>
                LET r == syncRuns[run]
                    p == r.list[r.pos]
                IN /\ \E i \in 1 .. Len(productMappings') :
                         productMappings'[i] =
                            MappingRow(r.store, p.id, RouteMedusaId(r.store, p.handle))
                   /\ medusaCatalog'[RouteMedusaId(r.store, p.handle)].handle = p.handle
                   /\ OtherKeysKept(productMappings, productMappings', r.store, p.id)
       /\ \A run \in RunIds :
             syncShopifyStoreLoop(run, "ok") =>
                LET r == syncRuns[run]
                    p == r.list[r.pos]
                IN /\ \E i \in 1 .. Len(products') :
                         products'[i] = MappingRow(r.store, p.id, Len(medusaCatalog'))
                   /\ medusaCatalog'[Len(medusaCatalog')].handle = p.handle
                   /\ OtherKeysKept(products, products', r.store, p.id)
       /\ productMappings' # productMappings
             => \E run \in RunIds : SyncProductsLoop(run, "ok")
       /\ products' # products
             => \E run \in RunIds : syncShopifyStoreLoop(run, "ok")]_vars

\* product 1 of a store was synced again under a new handle: its one mapping
\* row now names the newer destination product
C14_Witness ==
    /\ Len(productMappings) = 2
    /\ productMappings[1].shopifyProductId = 1
    /\ productMappings[1].medusaProductId = 3
    /\ productMappings[1].storeId = productMappings[2].storeId
    /\ medusaCatalog[3].handle = "tee"

\* a finished run has attempted every product it fetched, and its successes
\* and reported failures add up to the number fetched
RunAccounted(r) ==
    /\ r.pc = "loop" => r.synced + r.logged = r.pos - 1
    /\ (r.pc = "done" /\ r.code = 200) =>
          /\ r.synced + r.logged = Len(r.list)
          /\ r.total = Len(r.list)
          /\ r.impl = "route" => Len(r.errors) = r.logged

-----------------------------------------------------------------------------
(* Properties of cancel and of initiate *)

\* C21: cancel of a Delivery that does not exist is answered NotFound; on a
\* Delivery with a courier job reference the status becomes CANCELLED exactly
\* when the courier accepted the cancellation, and when the courier refuses
\* the request is answered with the failure and the Delivery's status and
\* cancellation reason are as before.
C21_CancelFollowsCourier ==
    [][resp'.op = "cancel" =>
         \A ok \in BOOLEAN :
            CancelDelivery(resp'.id, ok) =>
               LET d == resp'.id
               IN /\ ~DeliveryExists(d) =>
                        /\ resp'.code = 404
                        /\ deliveries' = deliveries
                  /\ (DeliveryExists(d) /\ deliveries[d].stuartJobId # NULL) =>
                        IF ok
                        THEN /\ resp'.code = 200
                             /\ deliveries'[d].status = "CANCELLED"
                        ELSE /\ resp'.code = 500
                             /\ deliveries'[d].status = deliveries[d].status
                             /\ deliveries'[d].cancellationReason
                                   = deliveries[d].cancellationReason]_vars

\* the courier refused to cancel the job of a Delivery that is not cancelled
C21_Witness ==
    /\ resp.op = "cancel" /\ resp.code = 500
    /\ DeliveryExists(resp.id)
    /\ deliveries[resp.id].stuartJobId # NULL
    /\ deliveries[resp.id].status # "CANCELLED"
    /\ deliveries[resp.id].cancellationReason = ""

\* C22: initiate on an existing order not more than 30 days old adds exactly
\* one Return, in status INITIATED, with the order's total as returnAmount and
\* the order's id and customer as its references, and changes no other Return;
\* initiate for an order that does not exist is answered NotFound and adds no
\* Return.
C22_InitiateCreatesOneReturn ==
    [][resp'.op = "initiate" =>
         \A m \in BOOLEAN, n \in BOOLEAN :
            Initiate(resp'.id, m, n) =>
               LET o == resp'.id
               IN /\ (o \in OrderIds
                        /\ now - orders[o].createdAt <= ReturnWindowDays * SecondsPerDay) =>
                        /\ Len(returns') = Len(returns) + 1
                        /\ SubSeq(returns', 1, Len(returns)) = returns
                        /\ returns'[Len(returns')].status = "INITIATED"
                        /\ returns'[Len(returns')].returnAmount = orders[o].total
                        /\ returns'[Len(returns')].orderId = o
                        /\ returns'[Len(returns')].customerId = orders[o].customerId
                  /\ (o # NULL /\ o \notin OrderIds) =>
                        /\ resp'.code = 404
                        /\ returns' = returns]_vars

\* the order of total 5000 placed ten days before got its Return
C22_Witness ==
    /\ resp.op = "initiate" /\ resp.code = 201 /\ resp.id = 1
    /\ returns # << >>
    /\ returns[Len(returns)].orderId = 1
    /\ returns[Len(returns)].returnAmount = 5000
    /\ returns[Len(returns)].status = "INITIATED"

-----------------------------------------------------------------------------
(* Properties of the courier client *)

\* C23: every method of the courier client first checks the token: it makes
\* one client-credentials exchange exactly when it holds no token or the
\* clock is past the recorded expiry; a request that is sent carries the token
\* held after that check, which is present and not past its expiry (the token
\* held before, when no exchange was made); when the exchange fails the
\* method throws, sends no request, creates no job and leaves the held token
\* and its expiry as they were.
C23_TokenCheckedBeforeRequest ==
    [][requests' # requests /\ courierCall'.op # "none" =>
         LET stale == accessToken = NULL \/ now > tokenExpiry
             call == courierCall'
         IN /\ (call.exchange # "none") <=> stale
            /\ call.exchange = "done" <=> tokensIssued' = tokensIssued + 1
            /\ call.exchange # "done" => tokensIssued' = tokensIssued
            /\ call.sent =>
                  /\ call.bearer # NULL
                  /\ call.bearer = accessToken'
                  /\ now <= tokenExpiry'
                  /\ ~stale => call.bearer = accessToken /\ tokenExpiry' = tokenExpiry
                  /\ stale => call.bearer # accessToken
            /\ call.exchange = "failed" =>
                  /\ ~call.sent /\ call.threw
                  /\ accessToken' = accessToken /\ tokenExpiry' = tokenExpiry
                  /\ UNCHANGED courierVars]_vars

\* a method found its token expired, fetched a second one and sent its
\* request with it
C23_Witness ==
    /\ courierCall.exchange = "done" /\ courierCall.sent
    /\ tokensIssued = 2
    /\ courierCall.bearer = 2
    /\ now <= tokenExpiry

\* C24: between the calls of the client, every job the courier created for
\* createDeliveryJob or createReturnPickupJob has a local stuartJob row that
\* carries its provider job id, whether the call returned or threw.
C24_EveryCreatedJobHasRecord ==
    \A k \in 1 .. providerJobs :
       \E i \in 1 .. Len(stuartJobs) : stuartJobs[i].stuartJobId = providerJobId(k)

-----------------------------------------------------------------------------
(* Properties of the recorded sync status *)

-----------------------------------------------------------------------------
(* Properties of repeated syncs *)

\* C26: when the sync of a store is run again and again, one run after
\* another, over the same source catalog, no destination backend ever holds
\* two products with the same handle.
C26_OneProductPerHandle ==
    \A i \in 1 .. Len(medusaCatalog), j \in 1 .. Len(medusaCatalog) :
       (/\ medusaCatalog[i].backend = medusaCatalog[j].backend
        /\ medusaCatalog[i].handle = medusaCatalog[j].handle) => i = j

-----------------------------------------------------------------------------
(* Properties of the delivery status update *)

\* C27: when updateStatus of a Delivery succeeds with status DELIVERED, the
\* parent Order has status DELIVERED afterwards and no other Order changes;
\* when it succeeds with any other status of the delivery set, only that
\* Delivery is written and every Order row is as before.
C27_OnlyDeliveredTouchesOrder ==
    [][(resp'.op = "updateDeliveryStatus" /\ resp'.code = 200) =>
         \A st \in DELIVERY_STATUS :
            UpdateDeliveryStatus(resp'.id, st) =>
               LET d == resp'.id
                   o == deliveries[d].orderId
               IN /\ deliveries'[d].status = st
                  /\ \A e \in 1 .. Len(deliveries) : e # d => deliveries'[e] = deliveries[e]
                  /\ Len(deliveries') = Len(deliveries)
                  /\ UNCHANGED <<quotes, returns, stuartJobs>>
                  /\ IF st = "DELIVERED"
                     THEN /\ orders'[o].status = "DELIVERED"
                          /\ \A p \in OrderIds : p # o => orders'[p] = orders[p]
                     ELSE orders' = orders]_vars

\* a Delivery was reported DELIVERED and its Order, until then
\* DELIVERY_CONFIRMED, is DELIVERED
C27_Witness ==
    /\ resp.op = "updateDeliveryStatus" /\ resp.code = 200
    /\ DeliveryExists(resp.id)
    /\ deliveries[resp.id].status = "DELIVERED"
    /\ orders[deliveries[resp.id].orderId].status = "DELIVERED"
    /\ requests = 1

-----------------------------------------------------------------------------
(* Properties of the notification log *)

\* C28: every call of sendEmail or sendSMS appends exactly one entry to the
\* notification log and leaves the earlier entries as they were; the new
\* entry says SENT when the provider accepted the message and FAILED when it
\* did not.
C28_OneLogEntryPerSend ==
    [][requests' # requests =>
         /\ Len(notifications') = Len(notifications) + 1
         /\ SubSeq(notifications', 1, Len(notifications)) = notifications
         /\ notifications'[Len(notifications')].status =
               IF providerMessages' = providerMessages + 1 THEN "SENT" ELSE "FAILED"]_vars

-----------------------------------------------------------------------------
(* Properties of requests that follow or overlap one another *)

\* C29: whatever processRefund and updateStatus requests are handled, in
\* whatever order, no Return has more than one refund record (each record
\* stands for one refund made at the payments gateway).
C29_AtMostOneRefundPerReturn ==
    \A id \in 1 .. Len(returns) :
       Cardinality({i \in 1 .. Len(refunds) : refunds[i].returnId = id}) <= 1

\* C30: whatever confirm requests name a quote, and however they overlap, at
\* most one Delivery references the quote (each Delivery of a confirm stands
\* for one courier job created).
C30_AtMostOneDeliveryPerQuote ==
    \A q \in 1 .. Len(quotes) :
       Cardinality({d \in 1 .. Len(deliveries) : deliveries[d].quoteId = q}) <= 1

-----------------------------------------------------------------------------
(* Approve requests arriving while a reject is handled *)

NextApproveRace ==
    \/ \E o \in OrderIds, m \in BOOLEAN, n \in BOOLEAN : Initiate(o, m, n)
    \/ \E s \in ApproveSlots, id \in ReturnIdInputs, a \in AmountInputs :
          ApproveFind(s, id, a)
    \/ \E s \in ApproveSlots : ApproveUpdate(s)
    \/ \E s \in ApproveSlots, c \in JobOutcomes, n \in BOOLEAN :
          ApproveSchedule(s, c, n)
    \/ \E id \in ReturnIdInputs, n \in BOOLEAN : Reject(id, n)

SpecApproveRace == Init /\ [][NextApproveRace]_vars

\* C31: once a reject of a Return has completed, an approve of the same Return
\* that had read the row before the reject changes neither the Return's status
\* nor its courier job
C31_ApproveLeavesRejectedAlone ==
    [][\A s \in ApproveSlots :
          (/\ approves[s].pc # "idle"
           /\ approves'[s] # approves[s]
           /\ approves[s].seen # "REJECTED"
           /\ returns[approves[s].id].status = "REJECTED")
             => /\ returns'[approves[s].id].status = "REJECTED"
                /\ returns'[approves[s].id].stuartJobId
                      = returns[approves[s].id].stuartJobId]_vars

\* C32: in every reachable state a Return whose status is REFUNDED has exactly
\* one refund record and a gateway refund id, and every refund record belongs
\* to a Return whose status is REFUNDED
C32_RefundedMatchesRecords ==
    /\ \A id \in 1 .. Len(returns) :
          returns[id].status = "REFUNDED"
             => /\ Cardinality({r \in 1 .. Len(refunds) : refunds[r].returnId = id}) = 1
                /\ returns[id].stripeRefundId # NULL
    /\ \A r \in 1 .. Len(refunds) :
          returns[refunds[r].returnId].status = "REFUNDED"

\* C33: every Delivery that confirm created names a quote that was issued for
\* the Delivery's own order
C33_DeliveryQuoteOfSameOrder ==
    \A d \in 1 .. Len(deliveries) :
       deliveries[d].quoteId # NULL
          => quotes[deliveries[d].quoteId].orderId = deliveries[d].orderId

\* C34: in every reachable state the stored status of every Delivery is one of
\* the nine values of the delivery status set
C34_DeliveryStatusInSet ==
    \A d \in 1 .. Len(deliveries) : deliveries[d].status \in DELIVERY_STATUS

\* C35: whenever a sync invocation of a store has started and not yet
\* finished, the recorded sync status of the store is syncing
C35_InProgressMeansSyncing ==
    \A run \in RunIds :
       LET r == syncRuns[run]
       IN /\ (r.impl = "lib" /\ r.pc \in {"fetch", "loop"})
                => syncStatus[r.store] = "syncing"
          /\ (r.impl = "stores" /\ r.pc = "timer")
                => stores[r.store].syncStatus = "syncing"

\* C36: whenever initiate answers with an error, the call has created no
\* Return row
C36_FailedInitiateLeavesNoReturn ==
    [][\A o \in OrderIds \cup {NULL, NoSuchOrder}, m \in BOOLEAN, n \in BOOLEAN :
          (Initiate(o, m, n) /\ resp'.code # 201) => returns' = returns]_vars

-----------------------------------------------------------------------------
(* OAuth callbacks arriving while others are under way *)

NextAuth ==
    \/ \E c \in CallbackSlots, shop \in StoreIds, ok \in BOOLEAN :
          CallbackBegin(c, shop, ok)
    \/ \E c \in CallbackSlots, ok \in BOOLEAN : CallbackDeactivate(c, ok)
    \/ \E c \in CallbackSlots, ok \in BOOLEAN : CallbackCreate(c, ok)

SpecAuth == InitProducts /\ [][NextAuth]_vars

\* C37: after any interleaving of OAuth callbacks at most one token of a store
\* is active, and after a callback that completed successfully the one active
\* token of its store is the token that callback created
C37_OneActiveTokenPerStore ==
    [][/\ \A s \in StoreIds : Cardinality(ActiveTokens(tokens', s)) <= 1
       /\ \A c \in CallbackSlots :
             (CallbackCreate(c, TRUE) /\ resp'.code = 200)
                => ActiveTokens(tokens', callbacks[c].store) = {Len(tokens')}]_vars

\* C38: after approve is called with an explicit returnAmount, zero included,
\* the Return's stored returnAmount is that amount
C38_ExplicitAmountIsStored ==
    [][resp'.op = "approve" =>
       \A a \in AmountInputs \ {NULL}, c \in JobOutcomes, n \in BOOLEAN :
          (Approve(resp'.id, a, c, n) /\ ReturnExists(resp'.id))
             => returns'[resp'.id].returnAmount = a]_vars

====
